---- MODULE Spec2Model ----
(***************************************************************************)
(* Model of the price-history engine of maplestory-price-tracker:          *)
(*   scripts/historical_price_tracker.py  (class HistoricalPriceTracker)   *)
(*   scripts/total_price_aggregator.py    (class TotalPriceAggregator)     *)
(*                                                                         *)
(* Time is counted in seconds.  A timestamp is the integer number of       *)
(* seconds that datetime.now() denotes; datetime.now().isoformat() and     *)
(* datetime.fromisoformat() are inverse to each other on such values, so a *)
(* stored timestamp is kept as that integer.  Prices are integers (NESO).  *)
(* The item_name field of a sample is carried by the item id and is left   *)
(* out of the records.                                                     *)
(***************************************************************************)
EXTENDS Integers, Sequences, FiniteSets, TLC

VARIABLES
    clock,                  \* the value the last datetime.now() returned
    equipment,              \* data/equipment_prices.json: item -> item_price
    raw_price_data,         \* tracker.raw_price_data: item -> deque of samples
    price_history,          \* tracker.price_history: item -> resolution -> deque
    total_price_raw_data,   \* tracker.total_price_raw_data: deque of total points
    total_price_history,    \* tracker.total_price_history: resolution -> chart data
    current_prices,         \* tracker.current_prices: item -> price (0: no entry)
    f_raw,                  \* raw_price_data.json
    f_history,              \* history_<resolution>.json
    f_total_raw,            \* total_price_raw_data.json
    f_total,                \* total_price_<resolution>.json
    f_item_chart,           \* <item_id>_<resolution>.json
    f_damage,               \* the files and persisted series that are structurally invalid
    f_locked,               \* the files that cannot be opened for writing
    agg_history,            \* aggregator.total_price_history: resolution -> deque
    ingest_log,             \* history: every sample add_raw_price_data ingested, per item
    total_log,              \* history: every total point update_total_price_data appended
    run_log,                \* history: per tracker run, the prices it read and when it started
    pc,                     \* the process that is running: "idle", "tracker", "aggregator"
    aggregated,             \* the list aggregate_price_data_for_interval returned last
    runs,                   \* number of runs made so far
    sel,                    \* one item in the collector: its quotes, selection, result, record
    equipment_file,         \* equipment_prices.json as the collector sees it: id -> record
    equipment_data,         \* run_update: the dictionary loaded from the file
    config,                 \* the updater: target_items, use_parallel, max_workers
    batches,                \* run_update: the batches handed to the executor
    tasks,                  \* per batch: state of its process_equipment_batch call, its results
    all_results,            \* run_update: all_results
    updated_count,          \* self.updated_count
    counts,                 \* run_update: normal_updates, filtered_updates, failed_updates
    upc,                    \* where the main thread of run_update is
    retry,                  \* one call of a function wrapped by retry_on_error
    drivers,                \* the number of browser drivers created and not quit
    write_log               \* history: the writes to records of equipment_data, with the writer

vars == << clock, equipment, raw_price_data, price_history, total_price_raw_data,
           total_price_history, current_prices, f_raw, f_history, f_total_raw,
           f_total, f_item_chart, f_damage, f_locked, agg_history, ingest_log, total_log, run_log, pc, aggregated, runs,
           sel, equipment_file, equipment_data, config, batches, tasks, all_results,
           updated_count, counts, upc, write_log, retry, drivers >>

updater_vars == << equipment_file, equipment_data, config, batches, tasks, all_results,
                   updated_count, counts, upc, write_log >>

collector_vars == << sel, updater_vars, retry, drivers >>

tracker_vars == << raw_price_data, price_history, total_price_raw_data,
                   total_price_history, current_prices >>

file_vars == << f_raw, f_history, f_total_raw, f_total, f_item_chart >>

fault_vars == << f_damage, f_locked >>

---------------------------------------------------------------------------
(* Bounds of the model.  The retention caps of the program are 60 (12hour), *)
(* 168 (1hour), 365 (1day) and 2880 (raw buffers); the model keeps their    *)
(* order (the raw buffers hold at least as much as any series) and uses     *)
(* small caps so that every cap is reached and exceeded.                    *)

MaxLen12hour == 1
MaxLen1hour == 2
MaxLen1day == 3
RawCap == 3

\* runs in a behaviour of Spec, and in one of SpecTotal
MaxRuns == 4
TotalRuns == 3

\* the number of runs in the specifications with damaged or locked files
FaultRuns == 3

---------------------------------------------------------------------------
(* Configuration *)

Items == {"A", "B", "C"}

\* the order in which current_data.items() yields the items of the JSON file
ItemOrder == << "A", "B", "C" >>

Resolutions == {"1hour", "12hour", "1day"}

\* the order in which price_intervals yields the resolutions
ResOrder == << "1hour", "12hour", "1day" >>

\* price_intervals[r]['interval'], in seconds
interval(r) ==
    CASE r = "1hour" -> 3600
      [] r = "12hour" -> 43200
      [] r = "1day" -> 86400

\* price_intervals[r]['maxlen']
maxlen(r) ==
    CASE r = "1hour" -> MaxLen1hour
      [] r = "12hour" -> MaxLen12hour
      [] r = "1day" -> MaxLen1day

\* FORCE_PRICE_DETECTION, 'true' unless the environment says otherwise
force_price_detection == TRUE

---------------------------------------------------------------------------
(* Sequences *)

Last(s) == s[Len(s)]

\* the last n elements of s
LastN(s, n) == IF Len(s) > n THEN SubSeq(s, Len(s) - n + 1, Len(s)) ELSE s

RECURSIVE SumSeq(_)
SumSeq(s) == IF s = << >> THEN 0 ELSE s[1] + SumSeq(Tail(s))

\* int(statistics.mean(xs)) for a non-empty list of non-negative integers
IntMean(xs) == SumSeq(xs) \div Len(xs)

\* a deque that holds one element less than its maxlen
DequeFrom_OneLess(list, cap) == LastN(list, cap - 1)

\* deque(list, maxlen=cap): keeps the last cap elements
DequeFrom(list, cap) == LastN(list, cap)

\* a deque that never drops an element
DequeAppend_NoEvict(q, x, cap) == Append(q, x)

\* deque(maxlen=cap).append(x): the oldest element is dropped when full
DequeAppend(q, x, cap) == LastN(Append(q, x), cap)

---------------------------------------------------------------------------
(* Records *)

\* a raw sample of an item: price_point of add_raw_price_data
RawPoint(t, p) == [timestamp |-> t, price |-> p]

\* an aggregated point of an item, as aggregate_price_data_for_interval emits it
AggPoint(t, p, n) == [timestamp |-> t, price |-> p, data_points |-> n]

\* a total point of one run: total_point of update_total_price_data
TotalPoint(t, total, avg, n) ==
    [timestamp |-> t, total_price |-> total, average_price |-> avg, item_count |-> n]

\* the content of a total_price_<resolution>.json file, and of
\* tracker.total_price_history[r]: nothing ("none"), Chart.js data ("chart":
\* labels and the data arrays of the two datasets) or a list of points ("list")
NoData == [kind |-> "none", labels |-> << >>, totals |-> << >>,
           averages |-> << >>, points |-> << >>]

ChartData(ls, ts, as) == [kind |-> "chart", labels |-> ls, totals |-> ts,
                          averages |-> as, points |-> << >>]

ListData(ps) == [kind |-> "list", labels |-> << >>, totals |-> << >>,
                 averages |-> << >>, points |-> ps]

---------------------------------------------------------------------------
(* Greedy grouping, shared by the two aggregate_..._for_interval loops *)

\* the test with <= for <
JoinsGroup_Inclusive(t, start, width) == t - start <= width

\* the test `point_time - group_start_time < interval_duration`
JoinsGroup(t, start, width) == t - start < width

\* The for loop over raw_data: cur is current_group, start is group_start_time,
\* out the groups closed so far.  The result is the sequence of groups, the
\* last one being the group that is still open when the loop ends.
RECURSIVE GroupScan(_, _, _, _, _)
GroupScan(raw, width, start, cur, out) ==
    IF raw = << >>
    THEN IF cur = << >> THEN out ELSE Append(out, cur)
    ELSE LET p == Head(raw) IN
         IF cur = << >>
         THEN GroupScan(Tail(raw), width, p.timestamp, << p >>, out)
         ELSE IF JoinsGroup(p.timestamp, start, width)
              THEN GroupScan(Tail(raw), width, start, Append(cur, p), out)
              ELSE GroupScan(Tail(raw), width, p.timestamp, << p >>, Append(out, cur))

GreedyGroups(raw, width) == GroupScan(raw, width, 0, << >>, << >>)

\* the aggregate of one group of raw samples of an item
GroupAggregate(g) ==
    AggPoint(Last(g).timestamp,
             IntMean([j \in 1..Len(g) |-> g[j].price]),
             Len(g))

\* aggregate_price_data_for_interval, on the item's raw buffer
aggregate_price_data_for_interval(raw, r) ==
    LET gs == GreedyGroups(raw, interval(r))
    IN  [g \in 1..Len(gs) |-> GroupAggregate(gs[g])]

\* the aggregate of one group of raw total points: each field is the truncated
\* mean of the members' fields
TotalGroupAggregate(g) ==
    [timestamp |-> Last(g).timestamp,
     total_price |-> IntMean([j \in 1..Len(g) |-> g[j].total_price]),
     average_price |-> IntMean([j \in 1..Len(g) |-> g[j].average_price]),
     item_count |-> IntMean([j \in 1..Len(g) |-> g[j].item_count]),
     data_points |-> Len(g)]

\* aggregated_data of aggregate_total_price_for_interval, on the total raw buffer
total_aggregated_data(raw, r) ==
    LET gs == GreedyGroups(raw, interval(r))
    IN  [g \in 1..Len(gs) |-> TotalGroupAggregate(gs[g])]

\* the Chart.js data of an item: labels and the data array of its one
\* dataset; NoChart stands for None
NoChart == [kind |-> "none", labels |-> << >>, data |-> << >>]

ItemChart(ls, ps) == [kind |-> "chart", labels |-> ls, data |-> ps]

\* format_time: strftime('%m/%d %H:%M') keeps the minute, strftime('%m/%d') the day
format_time(t, r) == IF r = "1day" THEN t \div 86400 ELSE t \div 60

\* format_total_price_chart_data
format_total_price_chart_data(agg, r) ==
    ChartData([j \in 1..Len(agg) |-> format_time(agg[j].timestamp, r)],
              [j \in 1..Len(agg) |-> agg[j].total_price],
              [j \in 1..Len(agg) |-> agg[j].average_price])

\* generate_chart_data on the series of an item
generate_chart_data(history, r) ==
    IF history = << >>
    THEN NoChart
    ELSE ItemChart([j \in 1..Len(history) |-> format_time(history[j].timestamp, r)],
                   [j \in 1..Len(history) |-> history[j].price])

\* aggregate_total_price_for_interval: the new total_price_history[r]
aggregate_total_price_for_interval(raw, r) ==
    format_total_price_chart_data(total_aggregated_data(raw, r), r)

---------------------------------------------------------------------------
(* HistoricalPriceTracker *)

\* a check that lets a price of 0 through
ValidPrice_NonNegative(v) == v >= 0

\* update_from_current_prices accepts an item when its item_price is present,
\* parses as an integer and is > 0.  The model writes an item_price as the
\* integer it parses to, and 0 for one that is missing, empty or zero.
ValidPrice(v) == v > 0

\* a loop that accepts every item of the file
ValidItems_All(eq) == Items

\* the items update_from_current_prices puts into all_current_prices
ValidItems(eq) == {i \in Items : ValidPrice(eq[i])}

\* the position of item i in the iteration order
Position(i) == CHOOSE n \in 1..Len(ItemOrder) : ItemOrder[n] = i

\* how many datetime.now() reads precede the one made for item i in a run
ReadsBefore(eq, i) ==
    Cardinality({n \in 1..Len(ItemOrder) : n < Position(i) /\ ValidPrice(eq[ItemOrder[n]])})

\* a buffer that refuses the new sample when it is full
add_raw_price_data_DropNewest(raw, t, price) ==
    IF Len(raw) >= RawCap THEN raw ELSE Append(raw, [timestamp |-> t, price |-> price])

\* add_raw_price_data: the raw buffer of the item after the append
add_raw_price_data(raw, t, price) == DequeAppend(raw, RawPoint(t, price), RawCap)

\* no duplicate check
ShouldAppend_Always(series, latest) == TRUE

\* the duplicate check of update_price_history: append unless the series ends
\* with an entry of the same timestamp
ShouldAppend(series, latest) ==
    series = << >> \/ Last(series).timestamp # latest.timestamp

\* the body of the loop over the resolutions in update_price_history: the
\* new price_history[item_id][r], given the item's raw buffer after the ingest
update_series(series, raw, r) ==
    LET aggregated_data == aggregate_price_data_for_interval(raw, r)
    IN  IF aggregated_data = << >>
        THEN series
        ELSE LET latest_data == Last(aggregated_data)
             IN  IF ShouldAppend(series, latest_data)
                 THEN DequeAppend(series, latest_data, maxlen(r))
                 ELSE series

\* updated_intervals of update_price_history
updated_intervals(hist, raw) ==
    {r \in Resolutions : update_series(hist[r], raw, r) # hist[r]}

\* a total point whose item_count counts every item of the file
RunTotalPoint_AllItems(eq, t) ==
    LET order == [n \in 1..Len(ItemOrder) |-> IF eq[ItemOrder[n]] > 0
                                              THEN eq[ItemOrder[n]] ELSE 0]
    IN  [timestamp |-> t, total_price |-> SumSeq(order),
         average_price |-> SumSeq(order) \div Cardinality(Items),
         item_count |-> Cardinality(Items)]

\* the total point update_total_price_data computes from all_current_prices
\* (every price in it is > 0), read at time t
RunTotalPoint(eq, t) ==
    LET valid == ValidItems(eq)
        order == [n \in 1..Len(ItemOrder) |-> IF ItemOrder[n] \in valid
                                              THEN eq[ItemOrder[n]] ELSE 0]
        total_price == SumSeq(order)
    IN  TotalPoint(t, total_price, total_price \div Cardinality(valid), Cardinality(valid))

\* the files of data/price_history and the series persisted in them, as they
\* are named in f_damage and f_locked
RawFile == << "raw_price_data" >>

HistoryFile(r) == << "history", r >>

TotalRawFile == << "total_price_raw_data" >>

TotalFile(r) == << "total_price", r >>

RawSeries(i) == << "raw_price_data", i >>

HistorySeries(r, i) == << "history", r, i >>

\* the place of a resolution in self.price_intervals
ResPosition(r) == CHOOSE n \in 1..Len(ResOrder) : ResOrder[n] = r

\* load_raw_data: json.load raises on an unparseable file and deque(raw_history)
\* on a series that is not a list; the one try of the function ends the load
\* there.  The items of a file are read in the order of ItemOrder.
RawLoaded(i) ==
    /\ RawFile \notin f_damage
    /\ \A j \in Items : RawSeries(j) \in f_damage => Position(i) < Position(j)

LoadRaw == [i \in Items |-> IF RawLoaded(i) THEN DequeFrom(f_raw[i], RawCap) ELSE << >>]

\* load_aggregated_data: its one try is around the loop over the resolutions,
\* so the first file or series that raises ends the load of every series
\* that would have been read after it
HistoryLoaded(r, i) ==
    \A r2 \in Resolutions :
        /\ HistoryFile(r2) \in f_damage => ResPosition(r) < ResPosition(r2)
        /\ \A j \in Items :
              HistorySeries(r2, j) \in f_damage
                  => \/ ResPosition(r) < ResPosition(r2)
                     \/ r = r2 /\ Position(i) < Position(j)

LoadHistory ==
    [i \in Items |->
        [r \in Resolutions |->
            IF HistoryLoaded(r, i) THEN DequeFrom(f_history[r][i], maxlen(r)) ELSE << >>]]

\* load_total_price_data: the raw total file, then the file of each
\* resolution, all in one try
LoadTotalRaw == IF TotalRawFile \in f_damage THEN << >> ELSE DequeFrom(f_total_raw, RawCap)

TotalLoaded(r) ==
    /\ TotalRawFile \notin f_damage
    /\ \A r2 \in Resolutions : TotalFile(r2) \in f_damage => ResPosition(r) < ResPosition(r2)

LoadTotal == [r \in Resolutions |-> IF TotalLoaded(r) THEN f_total[r] ELSE NoData]

\* main() of historical_price_tracker.py starts: __init__ and load_existing_history
NewTracker ==
    /\ pc = "idle"
    /\ pc' = "tracker"
    /\ raw_price_data' = LoadRaw
    /\ price_history' = LoadHistory
    /\ total_price_raw_data' = LoadTotalRaw
    /\ total_price_history' = LoadTotal
    /\ current_prices' = [i \in Items |-> 0]
    /\ UNCHANGED << clock, equipment, file_vars, agg_history, ingest_log, total_log,
                    run_log, aggregated, runs, collector_vars, fault_vars >>

\* save_raw_data: open(raw_data_file, 'w') raises when the file cannot be
\* opened for writing; the file is then left as it is
RawWritten == RawFile \notin f_locked

\* save_aggregated_data: its one try is around the loop over the resolutions,
\* so the first file that cannot be opened ends the loop
HistoryWritten(r) ==
    \A r2 \in Resolutions : HistoryFile(r2) \in f_locked => ResPosition(r) < ResPosition(r2)

\* save_total_price_data: the raw total file, then the file of each
\* resolution that has data (`if interval_type in self.total_price_history`),
\* all in one try
TotalRawWritten == TotalRawFile \notin f_locked

TotalWritten(r, history) ==
    /\ TotalRawWritten
    /\ history[r].kind # "none"
    /\ \A r2 \in Resolutions :
          TotalFile(r2) \in f_locked /\ history[r2].kind # "none"
              => ResPosition(r) < ResPosition(r2)

\* the names of a file and of the series in it
RawNames == {RawFile} \cup {RawSeries(i) : i \in Items}

HistoryNames(r) == {HistoryFile(r)} \cup {HistorySeries(r, i) : i \in Items}

\* a file that save_history_to_files has written is valid again
Rewritten(history) ==
    UNION {IF RawWritten THEN RawNames ELSE {},
           UNION {IF HistoryWritten(r) THEN HistoryNames(r) ELSE {} : r \in Resolutions},
           IF TotalRawWritten THEN {TotalRawFile} ELSE {},
           {TotalFile(r) : r \in {q \in Resolutions : TotalWritten(q, history)}}}

\* a persisted sample that has its 'price' field
HasPrice(point) == "price" \in DOMAIN point

\* aggregate_price_data_for_interval raises KeyError on a buffer that holds a
\* sample without a price: the aggregation of its group fails, inside the
\* loop the failure leaves the group open, and the aggregation of the last
\* group is outside the try
Raises(raw) == \E j \in 1..Len(raw) : ~HasPrice(raw[j])

\* the accepted items whose update_price_history raises in this run
RaisingItems(eq, raw) == {i \in ValidItems(eq) : Raises(raw[i])}

\* the exception of an item leaves the loop over the items: it is caught by
\* the `except Exception` of update_from_current_prices, which returns 0
Aborts(eq, raw) == RaisingItems(eq, raw) # {}

\* update_from_current_prices, with the save at its end; the process then ends.
\* d is the time that passed since the previous clock read, k the time between
\* two clock reads of the run (one read per accepted item, then one for the
\* total point).  When the update of an item raises, the items before it have
\* been updated in memory, the item itself has its sample and its
\* current_prices entry, and nothing else happens.
UpdateFromCurrentPrices(d, k) ==
    LET valid == ValidItems(equipment)
        t0 == clock + d
        tItem(i) == t0 + k * ReadsBefore(equipment, i)
        tTotal == t0 + k * Cardinality(valid)
        raising == RaisingItems(equipment, raw_price_data)
        aborted == Aborts(equipment, raw_price_data)
        \* the items whose update is reached, and those whose update completes
        reached == {i \in valid : aborted => \A b \in raising : Position(i) <= Position(b)}
        done == reached \ raising
    IN  /\ pc = "tracker"
        /\ pc' = "idle"
        /\ runs' = runs + 1
        /\ run_log' = Append(run_log, [eq |-> equipment, t |-> t0])
        /\ clock' = IF aborted THEN t0 + k * (Cardinality(reached) - 1) ELSE tTotal
        \* the loop over the items: update_price_history for each accepted item
        /\ raw_price_data' =
              [i \in Items |->
                  IF i \in reached
                  THEN add_raw_price_data(raw_price_data[i], tItem(i), equipment[i])
                  ELSE raw_price_data[i]]
        /\ price_history' =
              [i \in Items |->
                  IF i \in done
                  THEN [r \in Resolutions |->
                           update_series(price_history[i][r], raw_price_data'[i], r)]
                  ELSE price_history[i]]
        /\ current_prices' =
              [i \in Items |-> IF i \in reached THEN equipment[i] ELSE current_prices[i]]
        /\ ingest_log' =
              [i \in Items |->
                  IF i \in reached
                  THEN Append(ingest_log[i], RawPoint(tItem(i), equipment[i]))
                  ELSE ingest_log[i]]
        \* `if all_current_prices:` update_total_price_data
        /\ IF valid # {} /\ ~aborted
           THEN /\ total_price_raw_data' =
                      DequeAppend(total_price_raw_data, RunTotalPoint(equipment, tTotal), RawCap)
                /\ total_price_history' =
                      [r \in Resolutions |->
                          aggregate_total_price_for_interval(total_price_raw_data', r)]
                /\ total_log' = Append(total_log, RunTotalPoint(equipment, tTotal))
           ELSE UNCHANGED << total_price_raw_data, total_price_history, total_log >>
        \* `if updated_count > 0:` save_history_to_files
        /\ IF /\ ~aborted
              /\ \E i \in valid :
                    force_price_detection
                    \/ updated_intervals(price_history[i], raw_price_data'[i]) # {}
           THEN /\ f_raw' = IF RawWritten THEN raw_price_data' ELSE f_raw
                /\ f_history' = [r \in Resolutions |->
                                    IF HistoryWritten(r)
                                    THEN [i \in Items |-> price_history'[i][r]]
                                    ELSE f_history[r]]
                /\ f_total_raw' = IF TotalRawWritten THEN total_price_raw_data' ELSE f_total_raw
                /\ f_total' = [r \in Resolutions |->
                                  IF TotalWritten(r, total_price_history')
                                  THEN total_price_history'[r]
                                  ELSE f_total[r]]
                /\ f_damage' = f_damage \ Rewritten(total_price_history')
           ELSE UNCHANGED << f_raw, f_history, f_total_raw, f_total, f_damage >>
        /\ UNCHANGED << equipment, f_item_chart, agg_history, aggregated, collector_vars,
                        f_locked >>

\* a save that writes nothing when the process is stopped in it
WrittenBeforeStop_Nothing(r, n) == FALSE

\* save_aggregated_data stopped after the n-th file of its loop: the files of
\* the first n resolutions are written
WrittenBeforeStop(r, n) == ResPosition(r) <= n

\* update_from_current_prices in a process that is stopped in
\* save_aggregated_data between the writes of the n-th and the next file
UpdateStoppedInSave(d, k, n) ==
    LET valid == ValidItems(equipment)
        t0 == clock + d
        tItem(i) == t0 + k * ReadsBefore(equipment, i)
        tTotal == t0 + k * Cardinality(valid)
        raising == RaisingItems(equipment, raw_price_data)
        aborted == Aborts(equipment, raw_price_data)
        \* the items whose update is reached, and those whose update completes
        reached == {i \in valid : aborted => \A b \in raising : Position(i) <= Position(b)}
        done == reached \ raising
    IN  /\ pc = "tracker"
        /\ pc' = "idle"
        /\ runs' = runs + 1
        /\ run_log' = Append(run_log, [eq |-> equipment, t |-> t0])
        /\ clock' = IF aborted THEN t0 + k * (Cardinality(reached) - 1) ELSE tTotal
        \* the loop over the items: update_price_history for each accepted item
        /\ raw_price_data' =
              [i \in Items |->
                  IF i \in reached
                  THEN add_raw_price_data(raw_price_data[i], tItem(i), equipment[i])
                  ELSE raw_price_data[i]]
        /\ price_history' =
              [i \in Items |->
                  IF i \in done
                  THEN [r \in Resolutions |->
                           update_series(price_history[i][r], raw_price_data'[i], r)]
                  ELSE price_history[i]]
        /\ current_prices' =
              [i \in Items |-> IF i \in reached THEN equipment[i] ELSE current_prices[i]]
        /\ ingest_log' =
              [i \in Items |->
                  IF i \in reached
                  THEN Append(ingest_log[i], RawPoint(tItem(i), equipment[i]))
                  ELSE ingest_log[i]]
        \* `if all_current_prices:` update_total_price_data
        /\ IF valid # {} /\ ~aborted
           THEN /\ total_price_raw_data' =
                      DequeAppend(total_price_raw_data, RunTotalPoint(equipment, tTotal), RawCap)
                /\ total_price_history' =
                      [r \in Resolutions |->
                          aggregate_total_price_for_interval(total_price_raw_data', r)]
                /\ total_log' = Append(total_log, RunTotalPoint(equipment, tTotal))
           ELSE UNCHANGED << total_price_raw_data, total_price_history, total_log >>
        \* `if updated_count > 0:` save_history_to_files
        /\ IF /\ ~aborted
              /\ \E i \in valid :
                    force_price_detection
                    \/ updated_intervals(price_history[i], raw_price_data'[i]) # {}
           THEN HistoryWritten(ResOrder[n])
           ELSE FALSE
        \* save_raw_data, then the first n files of save_aggregated_data
        /\ f_raw' = IF RawWritten THEN raw_price_data' ELSE f_raw
        /\ f_history' = [r \in Resolutions |->
                            IF WrittenBeforeStop(r, n)
                            THEN [i \in Items |-> price_history'[i][r]]
                            ELSE f_history[r]]
        /\ f_damage' = f_damage \ ((IF RawWritten THEN RawNames ELSE {})
                                    \cup UNION {HistoryNames(r) :
                                                   r \in {q \in Resolutions :
                                                             WrittenBeforeStop(q, n)}})
        /\ UNCHANGED << f_total_raw, f_total >>
        /\ UNCHANGED << equipment, f_item_chart, agg_history, aggregated, collector_vars,
                        f_locked >>

\* export_chart_data_for_web(item_id, interval) on the loaded tracker: the
\* chart is written when generate_chart_data returns one
ExportChartDataForWeb(i, r) ==
    /\ pc = "tracker"
    /\ generate_chart_data(price_history[i][r], r) # NoChart
    /\ f_item_chart' = [f_item_chart EXCEPT ![i][r] = generate_chart_data(price_history[i][r], r)]
    /\ UNCHANGED << clock, equipment, tracker_vars, f_raw, f_history, f_total_raw, f_total,
                    agg_history, ingest_log, total_log, run_log, pc, aggregated, runs,
                    collector_vars, fault_vars >>

\* the price collector (scripts/update_prices.py) rewrites equipment_prices.json
\* between two runs
WritePrices(eq) ==
    /\ pc = "idle"
    /\ equipment # eq
    /\ equipment' = eq
    /\ UNCHANGED << clock, tracker_vars, file_vars, agg_history, ingest_log, total_log,
                    run_log, pc, aggregated, runs, collector_vars, fault_vars >>

\* raw_price_data.json is damaged between two runs: the oldest persisted
\* sample of item i loses its 'price' field
CorruptRawFile(i) ==
    /\ pc = "idle"
    /\ f_raw[i] # << >>
    /\ \A j \in Items : ~Raises(f_raw[j])
    /\ f_raw' = [f_raw EXCEPT ![i][1] = [timestamp |-> @.timestamp]]
    /\ UNCHANGED << clock, equipment, tracker_vars, f_history, f_total_raw, f_total,
                    f_item_chart, agg_history, ingest_log, total_log, run_log, pc, aggregated, runs,
                    collector_vars, fault_vars >>

\* what can become structurally invalid in data/price_history: a file that
\* exists, or a series that a file holds
Damageable ==
    UNION {{RawFile : i \in {j \in Items : f_raw[j] # << >>}},
           {RawSeries(i) : i \in {j \in Items : f_raw[j] # << >>}},
           UNION {{HistoryFile(r) : i \in {j \in Items : f_history[r][j] # << >>}}
                     : r \in Resolutions},
           UNION {{HistorySeries(r, i) : i \in {j \in Items : f_history[r][j] # << >>}}
                     : r \in Resolutions},
           IF f_total_raw # << >> THEN {TotalRawFile} ELSE {},
           {TotalFile(r) : r \in {q \in Resolutions : f_total[q].kind # "none"}}}

\* between two runs a file is overwritten with something that is not JSON, or
\* a series in it with something that is not a list
DamageFile(x) ==
    /\ pc = "idle"
    /\ f_damage = {}
    /\ x \in Damageable
    /\ f_damage' = {x}
    /\ UNCHANGED << clock, equipment, tracker_vars, file_vars, f_locked, agg_history,
                    ingest_log, total_log, run_log, pc, aggregated, runs, collector_vars >>

\* the files of data/price_history
Files ==
    {RawFile, TotalRawFile} \cup {HistoryFile(r) : r \in Resolutions}
        \cup {TotalFile(r) : r \in Resolutions}

\* between two runs a file becomes impossible to open for writing
LockFile(x) ==
    /\ pc = "idle"
    /\ f_locked = {}
    /\ f_locked' = {x}
    /\ UNCHANGED << clock, equipment, tracker_vars, file_vars, f_damage, agg_history,
                    ingest_log, total_log, run_log, pc, aggregated, runs, collector_vars >>

---------------------------------------------------------------------------
(* TotalPriceAggregator *)

\* calculate_total_price_from_json accepts an item when its item_price is
\* present, parses as an integer and lies in 10000..100000000
AggValidPrice(v) == 10000 <= v /\ v <= 100000000

\* calculate_total_price_from_json: << total_price, valid_items >>
calculate_total_price_from_json(eq) ==
    LET order == [n \in 1..Len(ItemOrder) |-> IF AggValidPrice(eq[ItemOrder[n]])
                                              THEN eq[ItemOrder[n]] ELSE 0]
    IN  << SumSeq(order), Cardinality({i \in Items : AggValidPrice(eq[i])}) >>

\* total_price_point of update_total_price_history
AggTotalPoint(t, total_price, valid_items) ==
    TotalPoint(t, total_price,
               IF valid_items > 0 THEN total_price \div valid_items ELSE 0,
               valid_items)

\* should_update_total_price_interval, with now the clock read it makes
should_update_total_price_interval(history, now, r) ==
    history = << >> \/ now - Last(history).timestamp >= interval(r)

\* how many clock reads update_total_price_history makes before the one of
\* resolution r: the timestamp of the point, then one per earlier resolution
\* whose history is not empty
AggReadsBefore(hist, r) ==
    1 + Cardinality({n \in 1..Len(ResOrder) :
                        /\ n < (CHOOSE m \in 1..Len(ResOrder) : ResOrder[m] = r)
                        /\ hist[ResOrder[n]] # << >>})

\* updated_intervals of update_total_price_history, the clock reads starting
\* at t0 and being k apart
total_intervals(hist, total_price, valid_items, t0, k) ==
    IF total_price = 0 \/ valid_items = 0
    THEN {}
    ELSE {r \in Resolutions :
             should_update_total_price_interval(hist[r], t0 + k * AggReadsBefore(hist, r), r)}

\* update_total_price_history: the new total_price_history
update_total_price_history(hist, total_price, valid_items, t0, k) ==
    [r \in Resolutions |->
        IF r \in total_intervals(hist, total_price, valid_items, t0, k)
        THEN DequeAppend(hist[r], AggTotalPoint(t0, total_price, valid_items), maxlen(r))
        ELSE hist[r]]

\* the points generate_total_price_chart_data keeps
ChartValid(pt) == pt.total_price > 0 /\ pt.average_price > 0

\* generate_total_price_chart_data: NoData stands for None
generate_total_price_chart_data(history, r) ==
    LET valid_points == SelectSeq(history, ChartValid)
    IN  IF valid_points = << >>
        THEN NoData
        ELSE ChartData([j \in 1..Len(valid_points) |-> format_time(valid_points[j].timestamp, r)],
                       [j \in 1..Len(valid_points) |-> valid_points[j].total_price],
                       [j \in 1..Len(valid_points) |-> valid_points[j].average_price])

\* an append that trims the data arrays and leaves the labels as they are
append_new_data_to_chart_LabelsKept(existing, pt, r) ==
    ChartData(Append(existing.labels, format_time(pt.timestamp, r)),
              LastN(Append(existing.totals, pt.total_price), maxlen(r)),
              LastN(Append(existing.averages, pt.average_price), maxlen(r)))

\* append_new_data_to_chart
append_new_data_to_chart(existing, pt, r) ==
    ChartData(LastN(Append(existing.labels, format_time(pt.timestamp, r)), maxlen(r)),
              LastN(Append(existing.totals, pt.total_price), maxlen(r)),
              LastN(Append(existing.averages, pt.average_price), maxlen(r)))

\* export_total_price_chart_data_for_web: the new content of
\* total_price_<r>.json, given its content when the export starts
export_total_price_chart_data_for_web(file, history, r) ==
    IF history = << >>
    THEN file
    ELSE LET updated_chart_data ==
                 IF file.kind = "chart"
                 THEN append_new_data_to_chart(file, Last(history), r)
                 ELSE generate_total_price_chart_data(history, r)
         IN  IF updated_chart_data.kind = "none" THEN file ELSE updated_chart_data

\* save_total_price_history_to_files writes the list of the points
save_total_price_history(history) == ListData(history)

\* save_total_price_history_to_files: its one try is around the loop over the
\* resolutions, so the first file that cannot be opened ends the loop
ListWritten(r) ==
    \A r2 \in Resolutions : TotalFile(r2) \in f_locked => ResPosition(r) < ResPosition(r2)

\* total_price_<r>.json after save_total_price_history_to_files
FileAfterListSave(r, history) ==
    IF ListWritten(r) THEN save_total_price_history(history[r]) ELSE f_total[r]

\* load_existing_chart_data: None for a file that cannot be parsed
ExistingChartData(r, history) ==
    IF ~ListWritten(r) /\ TotalFile(r) \in f_damage THEN NoData ELSE FileAfterListSave(r, history)

\* export_total_price_chart_data_for_web reaches its json.dump and the file
\* can be opened; each export has its own try
ExportWritten(r, history) ==
    /\ TotalFile(r) \notin f_locked
    /\ history[r] # << >>
    /\ export_total_price_chart_data_for_web(ExistingChartData(r, history), history[r], r).kind
          = "chart"

\* initialize_total_price_history and load_existing_total_price_history: a
\* file is taken over only when it holds a non-empty list of points
LoadAggHistory ==
    [r \in Resolutions |->
        IF TotalFile(r) \notin f_damage /\ f_total[r].kind = "list" /\ f_total[r].points # << >>
        THEN DequeFrom(f_total[r].points, maxlen(r))
        ELSE << >>]

\* main() of total_price_aggregator.py starts: __init__
NewAggregator ==
    /\ pc = "idle"
    /\ pc' = "aggregator"
    /\ agg_history' = LoadAggHistory
    /\ UNCHANGED << clock, equipment, tracker_vars, file_vars, ingest_log, total_log,
                    run_log, aggregated, runs, collector_vars, fault_vars >>

\* process_total_price_aggregation; the process then ends.  d is the time that
\* passed since the previous clock read, k the time between two clock reads.
ProcessTotalPriceAggregation(d, k) ==
    LET calc == calculate_total_price_from_json(equipment)
        t0 == clock + d
        reads == IF calc[1] = 0 \/ calc[2] = 0
                 THEN 0
                 ELSE 1 + Cardinality({r \in Resolutions : agg_history[r] # << >>})
    IN  /\ pc = "aggregator"
        /\ pc' = "idle"
        /\ runs' = runs + 1
        /\ clock' = IF reads = 0 THEN t0 ELSE t0 + k * (reads - 1)
        /\ agg_history' = update_total_price_history(agg_history, calc[1], calc[2], t0, k)
        \* `if total_intervals:` save the lists, then export the charts
        /\ IF total_intervals(agg_history, calc[1], calc[2], t0, k) # {}
           THEN /\ f_total' = [r \in Resolutions |->
                                  IF ExportWritten(r, agg_history')
                                  THEN export_total_price_chart_data_for_web(
                                           ExistingChartData(r, agg_history'), agg_history'[r], r)
                                  ELSE FileAfterListSave(r, agg_history')]
                /\ f_damage' = f_damage
                                  \ {TotalFile(r) : r \in {q \in Resolutions :
                                                              \/ ListWritten(q)
                                                              \/ ExportWritten(q, agg_history')}}
           ELSE UNCHANGED << f_total, f_damage >>
        /\ UNCHANGED << equipment, tracker_vars, f_raw, f_history, f_total_raw, f_item_chart,
                        f_locked,
                        ingest_log, total_log, run_log, aggregated, collector_vars >>

---------------------------------------------------------------------------
(* GitHubActionsUpdater (scripts/update_prices.py): quote filtering and      *)
(* selection.  A quote list is a sequence of integer prices.                *)

\* self.minimum_data_points, self.minimum_price_threshold, self.iqr_multiplier
\* (1.0), and the ratios of the relative filters
minimum_data_points == 4
minimum_price_threshold == 10000
iqr_multiplier == 1
median_min_ratio == 10
median_max_ratio == 20
top3_min_ratio == 20
bottom3_max_ratio == 50
final_price_ratio == 30

\* Python's None, for a price that is absent
None == -1

\* the statuses select_optimal_price returns: "no_data" is '価格データなし',
\* "fallback_previous" is '前回価格維持（全価格外れ値・7データ）', "fallback_median"
\* is '中央値使用（全価格外れ値・7データ）', "normal" is
\* '7データ上下限フィルタリング正常価格'

RECURSIVE Insert(_, _)
Insert(x, sorted) ==
    IF sorted = << >> THEN << x >>
    ELSE IF x < Head(sorted) THEN << x >> \o sorted
         ELSE << Head(sorted) >> \o Insert(x, Tail(sorted))

\* sorted(prices): ascending, stable
RECURSIVE SortedList(_)
SortedList(s) == IF s = << >> THEN << >> ELSE Insert(Last(s), SortedList(SubSeq(s, 1, Len(s) - 1)))

RECURSIVE MinSeq(_)
MinSeq(s) == IF Len(s) = 1 THEN s[1]
             ELSE LET m == MinSeq(Tail(s)) IN IF s[1] <= m THEN s[1] ELSE m

RECURSIVE MaxSeq(_)
MaxSeq(s) == IF Len(s) = 1 THEN s[1]
             ELSE LET m == MaxSeq(Tail(s)) IN IF s[1] >= m THEN s[1] ELSE m

\* 4 * np.percentile(prices, 25 * q): linear interpolation between the order
\* statistics around position q * (n - 1) / 4.  The percentile of integer data
\* is a multiple of 1/4, so four times its value is kept as an integer.
Percentile4(prices, q) ==
    LET sorted == SortedList(prices)
        pos == q * (Len(prices) - 1)
        lo == pos \div 4 + 1
        rem == pos % 4
    IN  IF rem = 0 THEN 4 * sorted[lo]
        ELSE (4 - rem) * sorted[lo] + rem * sorted[lo + 1]

\* a test that marks the prices between the fences
IsOutlier_InsideFences(price, Q1x4, Q3x4) ==
    /\ 4 * price >= Q1x4 - iqr_multiplier * (Q3x4 - Q1x4)
    /\ 4 * price <= Q3x4 + iqr_multiplier * (Q3x4 - Q1x4)

\* a test of the upper fence only
IsOutlier_UpperOnly(price, Q1x4, Q3x4) ==
    4 * price > Q3x4 + iqr_multiplier * (Q3x4 - Q1x4)

\* `price < lower_bound or price > upper_bound`, all terms times 4
IsOutlier(price, Q1x4, Q3x4) ==
    \/ 4 * price < Q1x4 - iqr_multiplier * (Q3x4 - Q1x4)
    \/ 4 * price > Q3x4 + iqr_multiplier * (Q3x4 - Q1x4)

\* a detection without the `if IQR == 0` return
detect_outliers_iqr_NoZeroCheck(prices) ==
    IF Len(prices) < minimum_data_points
    THEN [outliers |-> << >>, normal_prices |-> prices]
    ELSE LET Q1x4 == Percentile4(prices, 1)
             Q3x4 == Percentile4(prices, 3)
             Out(p) == IsOutlier(p, Q1x4, Q3x4)
             In(p) == ~IsOutlier(p, Q1x4, Q3x4)
         IN  [outliers |-> SelectSeq(prices, Out), normal_prices |-> SelectSeq(prices, In)]

\* detect_outliers_iqr: the pair (outliers, normal_prices) as a record
detect_outliers_iqr(prices) ==
    IF Len(prices) < minimum_data_points
    THEN [outliers |-> << >>, normal_prices |-> prices]
    ELSE LET Q1x4 == Percentile4(prices, 1)
             Q3x4 == Percentile4(prices, 3)
             Out(p) == IsOutlier(p, Q1x4, Q3x4)
             In(p) == ~IsOutlier(p, Q1x4, Q3x4)
         IN  IF Q3x4 - Q1x4 = 0
             THEN [outliers |-> << >>, normal_prices |-> prices]
             ELSE [outliers |-> SelectSeq(prices, Out), normal_prices |-> SelectSeq(prices, In)]

\* int(np.median(prices)) for a non-empty list of positive integers
IntMedian(prices) ==
    LET sorted == SortedList(prices)
        n == Len(prices)
    IN  IF n % 2 = 1 THEN sorted[n \div 2 + 1]
        ELSE (sorted[n \div 2] + sorted[n \div 2 + 1]) \div 2

\* `optimal_price = min(normal_prices)`
Choose(normal_prices) == MinSeq(normal_prices)

\* select_optimal_price after its first test, for a non-empty quote list
select_from_quotes(prices, previous_price) ==
    LET d == detect_outliers_iqr(prices)
    IN  IF d.normal_prices = << >>
        THEN IF previous_price # None /\ previous_price # 0
                /\ previous_price > minimum_price_threshold
             THEN [price |-> previous_price, status |-> "fallback_previous"]
             ELSE [price |-> IntMedian(prices), status |-> "fallback_median"]
        ELSE [price |-> Choose(d.normal_prices), status |-> "normal"]

\* a selection that keeps the previous price when there is no quote
select_optimal_price_KeepPrevious(prices, previous_price) ==
    IF prices = << >>
    THEN [price |-> previous_price, status |-> "fallback_previous"]
    ELSE select_from_quotes(prices, previous_price)

\* select_optimal_price: the pair (price, status) as a record
select_optimal_price(prices, previous_price) ==
    IF prices = << >>
    THEN [price |-> None, status |-> "no_data"]
    ELSE select_from_quotes(prices, previous_price)

\* the elements of prices that are at least lo and at most hi
Within(prices, lo, hi) ==
    LET Keep(p) == lo <= p /\ p <= hi IN SelectSeq(prices, Keep)

\* a stage that returns what its filter left, however little
KeepIfEnough_Unguarded(filtered, prices) == filtered

\* `return filtered if len(filtered) >= 3 else prices`
KeepIfEnough(filtered, prices) == IF Len(filtered) >= 3 THEN filtered ELSE prices

\* remove_relative_low_outliers
remove_relative_low_outliers(prices) ==
    IF Len(prices) < 4 THEN prices
    ELSE LET sorted == SortedList(prices)
             n == Len(prices)
             median_price == sorted[n \div 2 + 1]
             min_threshold == median_price \div median_min_ratio
             top3_avg == (sorted[n - 2] + sorted[n - 1] + sorted[n]) \div 3
             ultra_min_threshold == top3_avg \div top3_min_ratio
             final_min_threshold ==
                 MaxSeq(<< min_threshold, ultra_min_threshold, minimum_price_threshold >>)
         IN  KeepIfEnough(Within(prices, final_min_threshold, MaxSeq(prices)), prices)

\* remove_relative_high_outliers
remove_relative_high_outliers(prices) ==
    IF Len(prices) < 4 THEN prices
    ELSE LET sorted == SortedList(prices)
             n == Len(prices)
             median_price == sorted[n \div 2 + 1]
             max_threshold == median_price * median_max_ratio
             bottom3_avg == (sorted[1] + sorted[2] + sorted[3]) \div 3
             ultra_max_threshold == bottom3_avg * bottom3_max_ratio
             final_max_threshold == MinSeq(<< max_threshold, ultra_max_threshold >>)
         IN  KeepIfEnough(Within(prices, MinSeq(prices), final_max_threshold), prices)

\* strict_iqr_filter.  The fences are compared times 4; a negative lower fence
\* is replaced by min(prices) * 0.8, and p >= 0.8 * m is 5 * p >= 4 * m.
strict_iqr_filter(prices) ==
    IF Len(prices) < 4 THEN prices
    ELSE LET Q1x4 == Percentile4(prices, 1)
             Q3x4 == Percentile4(prices, 3)
             IQRx4 == Q3x4 - Q1x4
             Keep(p) ==
                 /\ IF Q1x4 - iqr_multiplier * IQRx4 < 0
                    THEN 5 * p >= 4 * MinSeq(prices)
                    ELSE 4 * p >= Q1x4 - iqr_multiplier * IQRx4
                 /\ 4 * p <= Q3x4 + iqr_multiplier * IQRx4
         IN  IF IQRx4 = 0 THEN prices
             ELSE KeepIfEnough(SelectSeq(prices, Keep), prices)

\* a final check that removes nothing
final_relative_check_NoFilter(prices) == prices

\* final_relative_check: max / min > 30 for positive integers is max > 30 * min
final_relative_check(prices) ==
    IF Len(prices) < 3 THEN prices
    ELSE LET max_price == MaxSeq(prices)
             min_price == MinSeq(prices)
             ratio_limit == min_price * final_price_ratio
             filtered == Within(prices, min_price, ratio_limit)
         IN  IF (min_price > 0 => max_price > ratio_limit) /\ Len(filtered) >= 3
             THEN filtered
             ELSE prices

\* advanced_outlier_removal: the four stages in order
advanced_outlier_removal(prices) ==
    IF Len(prices) < 4 THEN prices
    ELSE final_relative_check(
             strict_iqr_filter(
                 remove_relative_high_outliers(
                     remove_relative_low_outliers(prices))))

\* a pre-filter that lets the threshold itself through
AboveThreshold_Inclusive(price) == price >= minimum_price_threshold

\* `price > self.minimum_price_threshold`
AboveThreshold(price) == price > minimum_price_threshold

\* the tail of extract_prices, from the prices found on the page (all_prices):
\* pre-filter, sort, the first seven, advanced_outlier_removal when at least 4
extract_prices(all_prices) ==
    LET pre_filtered == SortedList(SelectSeq(all_prices, AboveThreshold))
        raw_prices == SubSeq(pre_filtered, 1, IF Len(pre_filtered) < 7 THEN Len(pre_filtered) ELSE 7)
    IN  IF Len(raw_prices) >= 4 THEN advanced_outlier_removal(raw_prices) ELSE raw_prices

---------------------------------------------------------------------------
(* GitHubActionsUpdater: one item from the page to its stored record *)

\* f"{price:,}": the decimal digits in groups of three, most significant first
RECURSIVE FormatPrice(_)
FormatPrice(price) ==
    IF price < 1000 THEN << price >>
    ELSE Append(FormatPrice(price \div 1000), price % 1000)

\* int(str(item_price).replace(',', '')) of a formatted price
RECURSIVE ParsePrice(_)
ParsePrice(groups) ==
    IF groups = << >> THEN 0
    ELSE ParsePrice(SubSeq(groups, 1, Len(groups) - 1)) * 1000 + Last(groups)

\* an item_price that holds no price: '', '未取得' or a missing field
NoPriceText == << >>

\* parse_previous_price
parse_previous_price(item_price) ==
    IF item_price = NoPriceText THEN None ELSE ParsePrice(item_price)

\* the result dictionaries of update_equipment_price_with_retry
Failure == [success |-> FALSE, price |-> None, price_status |-> "none"]

Success(price, price_status) == [success |-> TRUE, price |-> price, price_status |-> price_status]

\* the body of update_equipment_price_with_retry: page_ok says that the driver
\* started and the search succeeded, all_prices are the prices on the page
update_equipment_price_with_retry(page_ok, all_prices, item_price) ==
    LET previous_price == parse_previous_price(item_price)
        prices == extract_prices(all_prices)
        selected == select_optimal_price(prices, previous_price)
    IN  IF ~page_ok THEN Failure
        ELSE IF prices = << >> THEN Failure
        ELSE IF selected.price # None /\ selected.price # 0
             THEN Success(selected.price, selected.status)
             ELSE Failure

\* `'上下限' in price_status or '7データ' in price_status`: each of the three
\* statuses of a selected price contains '7データ'
IsFilteredStatus(price_status) ==
    price_status \in {"normal", "fallback_previous", "fallback_median"}

\* a loop body that clears the record of an item whose collection failed
apply_result_ResetOnFailure(record, result, now) ==
    IF result.success
    THEN [item_price |-> FormatPrice(result.price),
          status |-> << "updated", result.price_status >>,
          last_updated |-> now]
    ELSE [item_price |-> NoPriceText, status |-> << "failed" >>, last_updated |-> now]

\* the body of the loop `for result in all_results` of run_update: the new
\* record of the item; << "updated", s >> is '価格更新済み（s）', << "updated" >>
\* is '価格更新済み', << "failed" >> is '価格取得失敗'
apply_result(record, result, now) ==
    IF result.success
    THEN [item_price |-> FormatPrice(result.price),
          status |-> IF IsFilteredStatus(result.price_status)
                     THEN << "updated", result.price_status >>
                     ELSE << "updated" >>,
          last_updated |-> now]
    ELSE [record EXCEPT !.status = << "failed" >>]

\* a stored record that was never updated
Record(item_price) == [item_price |-> item_price, status |-> << "initial" >>, last_updated |-> 0]

NoSelection == [price |-> None, status |-> "none"]

NotCollecting ==
    [stage |-> "none", page_ok |-> FALSE, all_prices |-> << >>, prices |-> << >>,
     detected |-> [outliers |-> << >>, normal_prices |-> << >>],
     selection |-> NoSelection, result |-> Failure,
     before |-> Record(NoPriceText), record |-> Record(NoPriceText)]

\* extract_prices is applied to the page
ExtractPrices ==
    /\ sel.stage = "page"
    /\ sel.page_ok
    /\ sel' = [sel EXCEPT !.stage = "extracted", !.prices = extract_prices(sel.all_prices)]
    /\ UNCHANGED << clock, equipment, tracker_vars, file_vars, fault_vars, agg_history,
                    ingest_log,
                    total_log, run_log, pc, aggregated, runs, updater_vars, retry, drivers >>

\* a call select_optimal_price(prices, previous_price); detected keeps its
\* locals outliers and normal_prices
SelectOptimalPrice ==
    /\ sel.stage \in {"quotes", "extracted"}
    /\ sel' = [sel EXCEPT !.stage = "selected",
                          !.detected = IF sel.prices = << >> THEN sel.detected
                                       ELSE detect_outliers_iqr(sel.prices),
                          !.selection = select_optimal_price(
                                            sel.prices, parse_previous_price(sel.record.item_price))]
    /\ UNCHANGED << clock, equipment, tracker_vars, file_vars, fault_vars, agg_history,
                    ingest_log,
                    total_log, run_log, pc, aggregated, runs, updater_vars, retry, drivers >>

\* run_update on the one item: update_equipment_price_with_retry, then the
\* loop body that puts the result into the record
UpdateItem ==
    /\ sel.stage = "page"
    /\ clock' = clock + 1
    /\ LET result == update_equipment_price_with_retry(
                         sel.page_ok, sel.all_prices, sel.record.item_price)
       IN  sel' = [sel EXCEPT !.stage = "stored",
                              !.prices = IF sel.page_ok THEN extract_prices(sel.all_prices) ELSE << >>,
                              !.result = result,
                              !.record = apply_result(sel.record, result, clock')]
    /\ UNCHANGED << equipment, tracker_vars, file_vars, fault_vars, agg_history,
                    ingest_log,
                    total_log, run_log, pc, aggregated, runs, updater_vars, retry, drivers >>

---------------------------------------------------------------------------
(* GitHubActionsUpdater.run_update: the items of the file, sequentially or in *)
(* batches run by the threads of a ThreadPoolExecutor                        *)

\* the number of items in equipment_prices.json, each with an item_name
NumItems == 11

\* the keys of the file, in the order of equipment_data.items()
ItemIds == [n \in 1..NumItems |-> n]

\* the page of item i when the updater opens it: nothing above the threshold,
\* three quotes, four quotes with an outlier, a single quote
Market(i) ==
    CASE i % 4 = 0 -> << 5000 >>
      [] i % 4 = 1 -> << 50000, 51000, 52000 >>
      [] i % 4 = 2 -> << 200000, 210000, 220000, 9000000 >>
      [] i % 4 = 3 -> << 12000 >>

\* the record of item i before the first run: every other item has a price
StoredRecord(i) == Record(IF i % 2 = 0 THEN NoPriceText ELSE FormatPrice(60000))

\* __init__: TARGET_ITEMS is 'ALL' (target None) or a number
Config(target) ==
    IF target = None
    THEN [target_items |-> None, use_parallel |-> TRUE, max_workers |-> 6]
    ELSE [target_items |-> target, use_parallel |-> target > 20, max_workers |-> 4]

\* `items = items[:self.target_items]`
SelectedItems(cfg) ==
    IF cfg.target_items = None \/ cfg.target_items >= NumItems
    THEN ItemIds
    ELSE SubSeq(ItemIds, 1, cfg.target_items)

\* `batch_size = max(10, total // self.max_workers)`
batch_size(total, cfg) ==
    IF total \div cfg.max_workers > 10 THEN total \div cfg.max_workers ELSE 10

\* slices that share their border item
MakeBatches_Overlapping(items, size) ==
    [b \in 1..((Len(items) + size - 1) \div size) |->
        SubSeq(items, (b - 1) * size + (IF b > 1 THEN 0 ELSE 1),
               IF b * size < Len(items) THEN b * size ELSE Len(items))]

\* `[items[i:i + batch_size] for i in range(0, len(items), batch_size)]`
MakeBatches(items, size) ==
    [b \in 1..((Len(items) + size - 1) \div size) |->
        SubSeq(items, (b - 1) * size + 1,
               IF b * size < Len(items) THEN b * size ELSE Len(items))]

\* the result of update_equipment_price_with_retry for item i, with its id
ItemResult(i, page_ok, data) ==
    [equipment_id |-> i,
     result |-> update_equipment_price_with_retry(
                    page_ok, IF page_ok THEN Market(i) ELSE << >>, data[i].item_price)]

\* a worker that stores the price it found right away
worker_record_ApplyAtOnce(record, r, now) == apply_result(record, r.result, now)

\* what process_equipment_batch does to the record of the item it has
\* processed: it appends the result to its results and leaves the record alone
worker_record(record, r, now) == record

\* the loop `for result in all_results` over the first n results
RECURSIVE ApplyAll(_, _, _, _)
ApplyAll(data, results, n, now) ==
    IF n = 0 THEN data
    ELSE LET d == ApplyAll(data, results, n - 1, now)
             r == results[n]
         IN  [d EXCEPT ![r.equipment_id] = apply_result(@, r.result, now + n)]

\* the records the loop writes, in order, with the thread that writes them
MainWrites(results) ==
    [n \in 1..Len(results) |-> [item |-> results[n].equipment_id, thread |-> 0,
                                workers_done |-> TRUE]]

\* the counters of the loop `for result in all_results`: a successful result
\* counts as filtered when its status passes the test of the loop, as normal
\* otherwise
CountResults(results) ==
    LET successful == {n \in 1..Len(results) : results[n].result.success}
        filtered == {n \in successful : IsFilteredStatus(results[n].result.price_status)}
    IN  [normal_updates |-> Cardinality(successful \ filtered),
         filtered_updates |-> Cardinality(filtered),
         failed_updates |-> Len(results) - Cardinality(successful)]

NoTask == [state |-> "none", pos |-> 0, results |-> << >>]

\* no wrapper is running; n calls of the wrapper were made
RetryIdle(n) ==
    [state |-> "idle", max_retries |-> 0, attempt |-> 0, trace |-> << >>,
     last_exception |-> "None", outcome |-> "None", invocations |-> n]

UpdaterIdle ==
    /\ equipment_file = [i \in 1..NumItems |-> StoredRecord(i)]
    /\ equipment_data = [i \in 1..NumItems |-> StoredRecord(i)]
    /\ config = Config(None)
    /\ batches = << >>
    /\ tasks = << >>
    /\ all_results = << >>
    /\ updated_count = 0
    /\ counts = CountResults(<< >>)
    /\ upc = "idle"
    /\ write_log = << >>
    /\ retry = RetryIdle(0)
    /\ drivers = 0

rest_unchanged ==
    UNCHANGED << equipment, tracker_vars, file_vars, fault_vars, agg_history,
                    ingest_log,
                 total_log, run_log, pc, aggregated, runs, sel, retry, drivers >>

\* run_update up to the choice of the mode: the file is loaded, the items are
\* selected, and in the parallel mode the batches are submitted
StartRunUpdate(target) ==
    LET cfg == Config(target)
        items == SelectedItems(cfg)
        total == Len(items)
        parallel == cfg.use_parallel /\ total > 10
    IN  /\ upc = "idle"
        /\ config' = cfg
        /\ equipment_data' = equipment_file
        /\ updated_count' = 0
        /\ all_results' = << >>
        /\ write_log' = << >>
        /\ batches' = IF parallel THEN MakeBatches(items, batch_size(total, cfg)) ELSE << >>
        /\ tasks' = [b \in 1..Len(batches') |-> [NoTask EXCEPT !.state = "queued"]]
        /\ upc' = IF parallel THEN "parallel" ELSE IF total = 0 THEN "apply" ELSE "sequential"
        /\ UNCHANGED << clock, equipment_file, counts >>
        /\ rest_unchanged

\* a thread of the executor takes a queued batch
WorkerStart(b) ==
    /\ upc = "parallel"
    /\ tasks[b].state = "queued"
    /\ Cardinality({c \in 1..Len(tasks) : tasks[c].state = "running"}) < config.max_workers
    /\ tasks' = [tasks EXCEPT ![b].state = "running"]
    /\ UNCHANGED << clock, equipment_file, equipment_data, config, batches, all_results,
                    updated_count, counts, upc, write_log >>
    /\ rest_unchanged

\* process_equipment_batch: one turn of its loop, in the thread that runs batch
\* b; after the last item the call returns its results
WorkerItem(b, page_ok) ==
    /\ upc = "parallel"
    /\ tasks[b].state = "running"
    /\ LET i == batches[b][tasks[b].pos + 1]
           r == ItemResult(i, page_ok, equipment_data)
       IN  /\ tasks' = [tasks EXCEPT ![b].pos = @ + 1,
                                     ![b].results = Append(@, r),
                                     ![b].state = IF tasks[b].pos + 1 = Len(batches[b])
                                                  THEN "done" ELSE "running"]
           /\ equipment_data' = [equipment_data EXCEPT ![i] = worker_record(@, r, clock)]
           /\ write_log' = IF equipment_data' = equipment_data THEN write_log
                           ELSE Append(write_log, [item |-> i, thread |-> b,
                                                   workers_done |-> FALSE])
    /\ UNCHANGED << clock, equipment_file, config, batches, all_results, updated_count,
                    counts, upc >>
    /\ rest_unchanged

\* the loop over as_completed(futures) takes the results of a finished batch
MainCollect(b) ==
    /\ upc = "parallel"
    /\ tasks[b].state = "done"
    /\ tasks' = [tasks EXCEPT ![b].state = "collected"]
    /\ all_results' = all_results \o tasks[b].results
    /\ upc' = IF \A c \in 1..Len(tasks) : tasks'[c].state = "collected"
              THEN "apply" ELSE "parallel"
    /\ UNCHANGED << clock, equipment_file, equipment_data, config, batches, updated_count,
                    counts, write_log >>
    /\ rest_unchanged

\* the sequential mode: one turn of the loop over the items
SequentialItem(page_ok) ==
    /\ upc = "sequential"
    /\ LET items == SelectedItems(config)
           i == items[Len(all_results) + 1]
       IN  /\ all_results' = Append(all_results, ItemResult(i, page_ok, equipment_data))
           /\ upc' = IF Len(all_results') = Len(items) THEN "apply" ELSE "sequential"
    /\ UNCHANGED << clock, equipment_file, equipment_data, config, batches, tasks,
                    updated_count, counts, write_log >>
    /\ rest_unchanged

\* a loop that saves the dictionary as it goes
file_after_results_WriteThrough(file, data) == data

\* equipment_prices.json after the loop over the results: the loop changes the
\* dictionary in memory, the file is opened for writing only after it
file_after_results(file, data) == file

\* the loop `for result in all_results` that puts the results into equipment_data
ApplyResults ==
    /\ upc = "apply"
    /\ upc' = "write"
    /\ equipment_data' = ApplyAll(equipment_data, all_results, Len(all_results), clock)
    /\ updated_count' = updated_count
                           + Cardinality({n \in 1..Len(all_results) : all_results[n].result.success})
    /\ counts' = CountResults(all_results)
    /\ write_log' = write_log \o MainWrites(all_results)
    /\ clock' = clock + Len(all_results)
    /\ equipment_file' = file_after_results(equipment_file, equipment_data')
    /\ UNCHANGED << config, batches, tasks, all_results >>
    /\ rest_unchanged

\* the final json.dump of equipment_data
WriteEquipmentFile ==
    /\ upc = "write"
    /\ upc' = "done"
    /\ equipment_file' = equipment_data
    /\ UNCHANGED << clock, equipment_data, config, batches, tasks, all_results,
                    updated_count, counts, write_log >>
    /\ rest_unchanged

\* the process is stopped before the final write (the job is cancelled or
\* times out): nothing more happens
AbortRun ==
    /\ upc \in {"parallel", "sequential", "apply", "write"}
    /\ upc' = "aborted"
    /\ UNCHANGED << clock, equipment_file, equipment_data, config, batches, tasks,
                    all_results, updated_count, counts, write_log >>
    /\ rest_unchanged

---------------------------------------------------------------------------
(* retry_on_error: the decorator of update_equipment_price_with_retry *)

\* @retry_on_error(max_retries=2, delay=1) of scripts/update_prices.py
ScriptsMaxRetries == 2

\* @retry_on_error(max_retries=3, delay=2) of .github/workflows/scripts/update_prices.py
WorkflowMaxRetries == 3

RetryCounts == {ScriptsMaxRetries, WorkflowMaxRetries}

\* the number of calls of the wrapper in a behaviour
MaxInvocations == 2

\* what the wrapped function returns: a result dictionary with success True or False
Returns == {"success", "failure"}

\* the exceptions `except Exception` catches
Exceptions == {"TimeoutException", "WebDriverException", "Exception"}

\* the exceptions it does not catch
BaseExceptions == {"KeyboardInterrupt"}

\* a loop that makes one more attempt
attempts_remain_OneMore(attempt, max_retries) == attempt <= max_retries

\* `if attempt < max_retries`, which is also whether range(1, max_retries + 1)
\* has an element after attempt
attempts_remain(attempt, max_retries) == attempt < max_retries

\* wrapper(*args, **kwargs) is called: last_exception = None and the first
\* element of range(1, max_retries + 1)
WrapperCalled(m) ==
    /\ retry.state \in {"idle", "returned", "raised"}
    /\ retry.invocations < MaxInvocations
    /\ retry' = [RetryIdle(retry.invocations + 1) EXCEPT
                    !.state = "call", !.max_retries = m, !.attempt = 1]
    /\ UNCHANGED << clock, equipment, tracker_vars, file_vars, fault_vars, agg_history,
                    ingest_log, total_log, run_log, pc, aggregated, runs, sel,
                    updater_vars, drivers >>

\* `return func(*args, **kwargs)`: the call returns v
CallReturns(v) ==
    /\ retry.state = "call"
    /\ retry' = [retry EXCEPT !.state = "returned", !.outcome = v,
                              !.trace = Append(@, [kind |-> "return", value |-> v])]
    /\ UNCHANGED << clock, equipment, tracker_vars, file_vars, fault_vars, agg_history,
                    ingest_log, total_log, run_log, pc, aggregated, runs, sel,
                    updater_vars, drivers >>

\* the call raises e: an exception that `except Exception` does not catch
\* leaves the wrapper; otherwise it is kept in last_exception and either the
\* wrapper goes to time.sleep(delay) or the loop ends and `raise last_exception`
CallRaises(e) ==
    /\ retry.state = "call"
    /\ retry' =
          LET called == [retry EXCEPT
                            !.trace = Append(@, [kind |-> "raise", value |-> e])]
          IN  IF e \in BaseExceptions
              THEN [called EXCEPT !.state = "raised", !.outcome = e]
              ELSE IF attempts_remain(retry.attempt, retry.max_retries)
                   THEN [called EXCEPT !.state = "sleep", !.last_exception = e]
                   ELSE [called EXCEPT !.state = "raised", !.last_exception = e,
                                       !.outcome = e]
    /\ UNCHANGED << clock, equipment, tracker_vars, file_vars, fault_vars, agg_history,
                    ingest_log, total_log, run_log, pc, aggregated, runs, sel,
                    updater_vars, drivers >>

\* time.sleep(delay) returns and the loop takes the next attempt
SleepReturns ==
    /\ retry.state = "sleep"
    /\ retry' = [retry EXCEPT !.state = "call", !.attempt = @ + 1]
    /\ UNCHANGED << clock, equipment, tracker_vars, file_vars, fault_vars, agg_history,
                    ingest_log, total_log, run_log, pc, aggregated, runs, sel,
                    updater_vars, drivers >>

\* the wrapper of update_equipment_price_with_retry of scripts/update_prices.py
\* is called for the next item of the list, as the loops of run_update and of
\* process_equipment_batch do
ScriptsWrapperCalled ==
    /\ retry.state \in {"idle", "returned"}
    /\ Len(all_results) < NumItems
    /\ retry' = [RetryIdle(retry.invocations + 1) EXCEPT
                    !.state = "call", !.max_retries = ScriptsMaxRetries, !.attempt = 1]
    /\ UNCHANGED << clock, equipment, tracker_vars, file_vars, fault_vars, agg_history,
                    ingest_log, total_log, run_log, pc, aggregated, runs, sel,
                    updater_vars, drivers >>

\* one call of the body of update_equipment_price_with_retry: an exception
\* raised in its `try` (setup_driver, the search, no prices, no selection) is
\* caught by its own `except Exception` and a failure dictionary is returned,
\* so the wrapper sees a call that returns
ScriptsAttempt(page_ok) ==
    LET i == Len(all_results) + 1
        r == ItemResult(i, page_ok, equipment_data)
        v == IF r.result.success THEN "success" ELSE "failure"
    IN  /\ retry.state = "call"
        /\ retry.max_retries = ScriptsMaxRetries
        /\ retry' = [retry EXCEPT !.state = "returned", !.outcome = v,
                                  !.trace = Append(@, [kind |-> "return", value |-> v])]
        /\ all_results' = Append(all_results, r)
        /\ UNCHANGED << clock, equipment, tracker_vars, file_vars, fault_vars,
                        agg_history, ingest_log, total_log, run_log, pc, aggregated,
                        runs, sel, equipment_file, equipment_data, config, batches,
                        tasks, updated_count, counts, upc, write_log, drivers >>

\* the wrapper after a call of the wrapped function raised e, an exception
\* that `except Exception` catches
Raised(r, e) ==
    LET called == [r EXCEPT !.trace = Append(@, [kind |-> "raise", value |-> e]),
                            !.last_exception = e]
    IN  IF attempts_remain(r.attempt, r.max_retries)
        THEN [called EXCEPT !.state = "sleep"]
        ELSE [called EXCEPT !.state = "raised", !.outcome = e]

\* setup_driver of the workflow script: webdriver.Chrome raises twice and no
\* driver exists; or a driver is created and returned; or a driver is created
\* and the execute_script that follows raises
SetupOutcomes == {"no_driver", "driver", "driver_then_raise"}

\* `driver = self.setup_driver()`, the first statement of
\* update_equipment_price_with_retry of the workflow script, outside its `try`
WorkflowSetup(o) ==
    /\ retry.state = "call"
    /\ retry.max_retries = WorkflowMaxRetries
    /\ drivers' = IF o = "no_driver" THEN drivers ELSE drivers + 1
    /\ retry' = IF o = "driver"
                THEN [retry EXCEPT !.state = "body"]
                ELSE Raised(retry, "WebDriverException")
    /\ UNCHANGED << clock, equipment, tracker_vars, file_vars, fault_vars, agg_history,
                    ingest_log, total_log, run_log, pc, aggregated, runs, sel,
                    updater_vars >>

\* the `try` of update_equipment_price_with_retry returns a dictionary
\* (raised = FALSE) or raises, and its `finally` calls driver.quit()
WorkflowBody(raised, e) ==
    /\ retry.state = "body"
    /\ drivers' = drivers - 1
    /\ retry' = IF raised
                THEN Raised(retry, e)
                ELSE [retry EXCEPT !.state = "returned", !.outcome = "success",
                                   !.trace = Append(@, [kind |-> "return",
                                                        value |-> "success"])]
    /\ UNCHANGED << clock, equipment, tracker_vars, file_vars, fault_vars, agg_history,
                    ingest_log, total_log, run_log, pc, aggregated, runs, sel,
                    updater_vars >>

---------------------------------------------------------------------------
(* Inputs and specifications *)

\* equipment_prices.json with the given prices of A, B and C (0: no valid price)
Prices(a, b, c) == [i \in Items |-> CASE i = "A" -> a [] i = "B" -> b [] i = "C" -> c]

\* <<d, k>>: seconds since the previous clock read, seconds between the clock
\* reads of a run.  Same instant; ten minutes, one hour, one day later.
TimeSteps == {<< 0, 0 >>, << 600, 1 >>, << 3600, 1 >>, << 86400, 1 >>}

DeepInputs == {Prices(100, 0, 0), Prices(100, 110, 0)}

Init ==
    /\ clock = 0
    /\ equipment = Prices(0, 0, 0)
    /\ raw_price_data = [i \in Items |-> << >>]
    /\ price_history = [i \in Items |-> [r \in Resolutions |-> << >>]]
    /\ total_price_raw_data = << >>
    /\ total_price_history = [r \in Resolutions |-> NoData]
    /\ current_prices = [i \in Items |-> 0]
    /\ f_raw = [i \in Items |-> << >>]
    /\ f_history = [r \in Resolutions |-> [i \in Items |-> << >>]]
    /\ f_total_raw = << >>
    /\ f_total = [r \in Resolutions |-> NoData]
    /\ f_item_chart = [i \in Items |-> [r \in Resolutions |-> NoChart]]
    /\ f_damage = {}
    /\ f_locked = {}
    /\ agg_history = [r \in Resolutions |-> << >>]
    /\ ingest_log = [i \in Items |-> << >>]
    /\ total_log = << >>
    /\ run_log = << >>
    /\ pc = "idle"
    /\ aggregated = [r |-> "none", points |-> << >>]
    /\ runs = 0
    /\ sel = NotCollecting
    /\ UpdaterIdle

\* the tracker run after run, on a file whose prices change between the runs
Next ==
    \/ runs < MaxRuns /\ NewTracker
    \/ \E tk \in TimeSteps : UpdateFromCurrentPrices(tk[1], tk[2])
    \/ \E eq \in DeepInputs : WritePrices(eq)

Spec == Init /\ [][Next]_vars

\* the tracker and the aggregator, one after the other in any order, on the
\* same files
TotalInputs == {Prices(0, 0, 0), Prices(100000, 200000, 0), Prices(5000, 0, 0)}

TotalTimeSteps == {<< 600, 1 >>, << 3600, 1 >>}

NextTotal ==
    \/ runs < TotalRuns /\ NewTracker
    \/ runs < TotalRuns /\ NewAggregator
    \/ \E tk \in TotalTimeSteps : UpdateFromCurrentPrices(tk[1], tk[2])
    \/ \E tk \in TotalTimeSteps : ProcessTotalPriceAggregation(tk[1], tk[2])
    \/ \E eq \in TotalInputs : WritePrices(eq)

SpecTotal == Init /\ [][NextTotal]_vars

\* the aggregator alone, run after run on the files it wrote
\* a call update_total_price_history(total_price, valid_items) on the
\* aggregator that exists, with the totals of the prices eq; the instance stays
UpdateTotalPriceHistory(eq, d, k) ==
    LET calc == calculate_total_price_from_json(eq)
        t0 == clock + d
        reads == IF calc[1] = 0 \/ calc[2] = 0
                 THEN 0
                 ELSE 1 + Cardinality({r \in Resolutions : agg_history[r] # << >>})
    IN  /\ pc = "aggregator"
        /\ runs < MaxRuns
        /\ runs' = runs + 1
        /\ clock' = IF reads = 0 THEN t0 ELSE t0 + k * (reads - 1)
        /\ agg_history' = update_total_price_history(agg_history, calc[1], calc[2], t0, k)
        /\ UNCHANGED << equipment, tracker_vars, file_vars, fault_vars, ingest_log,
                        total_log, run_log, pc, aggregated, collector_vars >>

\* the time from one call to the next, and between two reads of the clock
InstanceTimeSteps == {<< 600, 1 >>, << 3599, 1 >>, << 3600, 1 >>}

\* calls of update_total_price_history on one TotalPriceAggregator
NextInstance ==
    \/ runs = 0 /\ NewAggregator
    \/ \E eq \in TotalInputs, tk \in InstanceTimeSteps :
          UpdateTotalPriceHistory(eq, tk[1], tk[2])

SpecInstance == Init /\ [][NextInstance]_vars

NextAggregator ==
    \/ runs < MaxRuns /\ NewAggregator
    \/ \E tk \in TotalTimeSteps : ProcessTotalPriceAggregation(tk[1], tk[2])
    \/ \E eq \in TotalInputs : WritePrices(eq)

SpecAggregator == Init /\ [][NextAggregator]_vars

\* aggregate_price_data_for_interval as a function of the raw buffer: the
\* buffer of item A is any time-ordered buffer of samples at these times and
\* prices, and the function is applied to it at each resolution
SampleTimes == {0, 600, 3600, 4200, 43200, 90000}

SamplePrices == {100, 110, 200}

SampleBuffers ==
    {s \in UNION {[1..n -> [timestamp : SampleTimes, price : SamplePrices]] : n \in 0..RawCap} :
        \A j \in 1..Len(s) - 1 : s[j].timestamp <= s[j + 1].timestamp}

NotAggregated == [r |-> "none", points |-> << >>]

InitAgg ==
    /\ clock = 90000
    /\ equipment = Prices(0, 0, 0)
    /\ \E s \in SampleBuffers :
          /\ raw_price_data = [i \in Items |-> IF i = "A" THEN s ELSE << >>]
          /\ f_raw = raw_price_data
          /\ ingest_log = raw_price_data
    /\ price_history = [i \in Items |-> [r \in Resolutions |-> << >>]]
    /\ total_price_raw_data = << >>
    /\ total_price_history = [r \in Resolutions |-> NoData]
    /\ current_prices = [i \in Items |-> 0]
    /\ f_history = [r \in Resolutions |-> [i \in Items |-> << >>]]
    /\ f_total_raw = << >>
    /\ f_total = [r \in Resolutions |-> NoData]
    /\ f_item_chart = [i \in Items |-> [r \in Resolutions |-> NoChart]]
    /\ f_damage = {}
    /\ f_locked = {}
    /\ agg_history = [r \in Resolutions |-> << >>]
    /\ total_log = << >>
    /\ run_log = << >>
    /\ pc = "tracker"
    /\ aggregated = NotAggregated
    /\ runs = 0
    /\ sel = NotCollecting
    /\ UpdaterIdle

\* a call of aggregate_price_data_for_interval(item_id, interval_type)
AggregatePriceData(i, r) ==
    /\ aggregated' = [r |-> r, points |-> aggregate_price_data_for_interval(raw_price_data[i], r)]
    /\ UNCHANGED << clock, equipment, tracker_vars, file_vars, agg_history, ingest_log,
                    total_log, run_log, pc, runs, collector_vars, fault_vars >>

NextAgg == \E r \in Resolutions : AggregatePriceData("A", r)

SpecAgg == InitAgg /\ [][NextAgg]_vars

\* the tracker run twice within a minute or ten minutes apart, on a file in
\* which items lose their price (0: missing or not a number, -5: negative)
IngestInputs == {Prices(100, 110, 120), Prices(120, 0, -5)}

IngestTimeSteps == {<< 30, 1 >>, << 600, 1 >>}

NextIngest ==
    \/ runs < MaxRuns /\ NewTracker
    \/ \E tk \in IngestTimeSteps : UpdateFromCurrentPrices(tk[1], tk[2])
    \/ \E eq \in IngestInputs : WritePrices(eq)

SpecIngest == Init /\ [][NextIngest]_vars

\* the same runs, with a persisted raw sample of one item damaged at some
\* point between two runs
NextCorrupt ==
    \/ runs < MaxRuns /\ NewTracker
    \/ \E tk \in IngestTimeSteps : UpdateFromCurrentPrices(tk[1], tk[2])
    \/ \E eq \in IngestInputs : WritePrices(eq)
    \/ \E i \in Items : CorruptRawFile(i)

SpecCorrupt == Init /\ [][NextCorrupt]_vars

\* the tracker run after run on the same prices, with one file or one
\* persisted series made invalid at some point between two runs
DamageInputs == {Prices(100, 110, 120)}

DamageTimeSteps == {<< 600, 1 >>, << 86400, 1 >>}

NextDamage ==
    \/ runs < FaultRuns /\ NewTracker
    \/ \E tk \in DamageTimeSteps : UpdateFromCurrentPrices(tk[1], tk[2])
    \/ \E eq \in DamageInputs : WritePrices(eq)
    \/ \E x \in Damageable : DamageFile(x)

SpecDamage == Init /\ [][NextDamage]_vars

\* the tracker and the aggregator run after run, with one file that cannot be
\* written from some point on
LockedInputs == {Prices(100000, 200000, 300000)}

LockedTimeSteps == {<< 3600, 1 >>, << 86400, 1 >>}

NextLocked ==
    \/ runs < FaultRuns /\ NewTracker
    \/ runs < FaultRuns /\ NewAggregator
    \/ \E tk \in LockedTimeSteps : UpdateFromCurrentPrices(tk[1], tk[2])
    \/ \E tk \in LockedTimeSteps : ProcessTotalPriceAggregation(tk[1], tk[2])
    \/ \E eq \in LockedInputs : WritePrices(eq)
    \/ \E x \in Files : LockFile(x)

SpecLocked == Init /\ [][NextLocked]_vars

\* the number of files save_aggregated_data has written when it is stopped
StopPoints == 1..(Len(ResOrder) - 1)

\* runs of the tracker of which any may be stopped between two writes of
\* save_aggregated_data
NextStop ==
    \/ runs < FaultRuns /\ NewTracker
    \/ \E tk \in LockedTimeSteps : UpdateFromCurrentPrices(tk[1], tk[2])
    \/ \E tk \in LockedTimeSteps, n \in StopPoints : UpdateStoppedInSave(tk[1], tk[2], n)
    \/ \E eq \in LockedInputs : WritePrices(eq)
    \/ \E x \in Files : LockFile(x)

SpecStop == Init /\ [][NextStop]_vars

\* the same runs, with the charts of item A exported by the loaded tracker
NextChart ==
    \/ NextLocked
    \/ \E r \in Resolutions : ExportChartDataForWeb("A", r)

SpecChart == Init /\ [][NextChart]_vars

\* the collector on one item.  Either the page of the item is drawn (whether
\* it could be opened, and the prices on it) together with the stored price
\* of the item, or a quote list is handed to select_optimal_price directly.
MaxQuotes == 5

PageValues == {5000, 10000, 12000, 50000, 51000, 52000, 9000000}

QuoteValues == {50000, 51000, 52000, 53000, 200000, 210000, 220000, 9000000}

StoredPrices == {NoPriceText, FormatPrice(5000), FormatPrice(60000)}

\* the lists of up to MaxQuotes values of S in ascending order
AscendingLists(S) ==
    {q \in UNION {[1..n -> S] : n \in 0..MaxQuotes} :
        \A j \in 1..Len(q) - 1 : q[j] <= q[j + 1]}

Reverse(q) == [j \in 1..Len(q) |-> q[Len(q) + 1 - j]]

\* a page lists its prices in either order
PageLists == AscendingLists(PageValues) \cup {Reverse(q) : q \in AscendingLists(PageValues)}

\* extract_prices hands its prices over in ascending order
QuoteLists == AscendingLists(QuoteValues)

InitSelect ==
    /\ clock = 0
    /\ equipment = Prices(0, 0, 0)
    /\ raw_price_data = [i \in Items |-> << >>]
    /\ price_history = [i \in Items |-> [r \in Resolutions |-> << >>]]
    /\ total_price_raw_data = << >>
    /\ total_price_history = [r \in Resolutions |-> NoData]
    /\ current_prices = [i \in Items |-> 0]
    /\ f_raw = [i \in Items |-> << >>]
    /\ f_history = [r \in Resolutions |-> [i \in Items |-> << >>]]
    /\ f_total_raw = << >>
    /\ f_total = [r \in Resolutions |-> NoData]
    /\ f_item_chart = [i \in Items |-> [r \in Resolutions |-> NoChart]]
    /\ f_damage = {}
    /\ f_locked = {}
    /\ agg_history = [r \in Resolutions |-> << >>]
    /\ ingest_log = [i \in Items |-> << >>]
    /\ total_log = << >>
    /\ run_log = << >>
    /\ pc = "collector"
    /\ aggregated = NotAggregated
    /\ runs = 0
    /\ UpdaterIdle
    /\ \E stored \in StoredPrices :
          \/ \E ok \in BOOLEAN, page \in PageLists :
                /\ ~ok => page = << >>
                /\ sel = [NotCollecting EXCEPT !.stage = "page", !.page_ok = ok,
                                               !.all_prices = page,
                                               !.before = Record(stored),
                                               !.record = Record(stored)]
          \/ \E q \in QuoteLists :
                sel = [NotCollecting EXCEPT !.stage = "quotes", !.prices = q,
                                            !.before = Record(stored),
                                            !.record = Record(stored)]

NextSelect ==
    \/ ExtractPrices
    \/ SelectOptimalPrice
    \/ UpdateItem

SpecSelect == InitSelect /\ [][NextSelect]_vars

\* prices of a page on which one quote is far below or far above the others
FilterValues == {12000, 20000, 200000, 800000, 9000000}

\* one item whose page lists quotes of FilterValues
InitFilter ==
    /\ clock = 0
    /\ equipment = Prices(0, 0, 0)
    /\ raw_price_data = [i \in Items |-> << >>]
    /\ price_history = [i \in Items |-> [r \in Resolutions |-> << >>]]
    /\ total_price_raw_data = << >>
    /\ total_price_history = [r \in Resolutions |-> NoData]
    /\ current_prices = [i \in Items |-> 0]
    /\ f_raw = [i \in Items |-> << >>]
    /\ f_history = [r \in Resolutions |-> [i \in Items |-> << >>]]
    /\ f_total_raw = << >>
    /\ f_total = [r \in Resolutions |-> NoData]
    /\ f_item_chart = [i \in Items |-> [r \in Resolutions |-> NoChart]]
    /\ f_damage = {}
    /\ f_locked = {}
    /\ agg_history = [r \in Resolutions |-> << >>]
    /\ ingest_log = [i \in Items |-> << >>]
    /\ total_log = << >>
    /\ run_log = << >>
    /\ pc = "collector"
    /\ aggregated = NotAggregated
    /\ runs = 0
    /\ UpdaterIdle
    /\ \E stored \in StoredPrices, page \in AscendingLists(FilterValues) :
          sel = [NotCollecting EXCEPT !.stage = "page", !.page_ok = TRUE,
                                      !.all_prices = page,
                                      !.before = Record(stored),
                                      !.record = Record(stored)]

SpecFilter == InitFilter /\ [][NextSelect]_vars

\* one run of run_update with TARGET_ITEMS = 'ALL', 3 or 25; every item's page
\* opens or fails to open
Targets == {None, 3, 25}

NextUpdate ==
    \/ \E target \in Targets : StartRunUpdate(target)
    \/ \E b \in 1..Len(tasks) : WorkerStart(b)
    \/ \E b \in 1..Len(tasks), ok \in BOOLEAN : WorkerItem(b, ok)
    \/ \E b \in 1..Len(tasks) : MainCollect(b)
    \/ \E ok \in BOOLEAN : SequentialItem(ok)
    \/ ApplyResults
    \/ WriteEquipmentFile

SpecUpdate == Init /\ [][NextUpdate]_vars

\* every thread of the run keeps running and every attempt on an item returns
FairSpecUpdate == SpecUpdate /\ WF_vars(NextUpdate)

\* calls of a function wrapped by retry_on_error
NextRetry ==
    \/ \E m \in RetryCounts : WrapperCalled(m)
    \/ \E v \in Returns : CallReturns(v)
    \/ \E e \in Exceptions \cup BaseExceptions : CallRaises(e)
    \/ SleepReturns

SpecRetry == Init /\ [][NextRetry]_vars

\* the wrapped function returns or raises (its waits have timeouts) and
\* time.sleep returns
FairSpecRetry == SpecRetry /\ WF_vars(NextRetry)

\* the decorated update_equipment_price_with_retry of scripts/update_prices.py
\* called for one item after the other
NextScripts ==
    \/ ScriptsWrapperCalled
    \/ \E ok \in BOOLEAN : ScriptsAttempt(ok)

SpecScripts == Init /\ [][NextScripts]_vars

\* the decorated update_equipment_price_with_retry of the workflow script with
\* its browser drivers
NextDrivers ==
    \/ WrapperCalled(WorkflowMaxRetries)
    \/ \E o \in SetupOutcomes : WorkflowSetup(o)
    \/ \E raised \in BOOLEAN, e \in Exceptions : WorkflowBody(raised, e)
    \/ SleepReturns

SpecDrivers == Init /\ [][NextDrivers]_vars

\* the workflow script (.github/workflows/scripts/update_prices.py)

\* TARGET_ITEMS of the workflow run: how many items of the file it processes
WorkflowTargets == {1, 2, 3}

\* what the result list of the page shows at the attempts of one call
WorkflowPages ==
    { << << >>, << >>, << >> >>,
      << << 50000 >>, << 50000 >>, << 220000, 200000 >> >>,
      << << 90000, 300000 >>, << >>, << >> >> }

\* the prices one attempt keeps: of the first five elements, those above
\* 100000
workflow_prices(page) ==
    SelectSeq(SubSeq(page, 1, IF Len(page) < 5 THEN Len(page) ELSE 5),
              LAMBDA price : price > 100000)

\* the decorated update_equipment_price_with_retry of the workflow script:
\* an attempt without a kept price raises, the wrapper tries again and
\* raises after its last attempt; a result carries the lowest kept price
\* (attempts count from 0, the pages of a call from 1)
RECURSIVE workflow_update(_, _)
workflow_update(pages, attempt) ==
    IF workflow_prices(pages[attempt + 1]) # << >>
    THEN [success |-> TRUE, raised |-> FALSE,
          price |-> MinSeq(workflow_prices(pages[attempt + 1]))]
    ELSE IF attempt + 1 < WorkflowMaxRetries
         THEN workflow_update(pages, attempt + 1)
         ELSE [success |-> FALSE, raised |-> TRUE, price |-> None]

\* the item's record after the loop body of run_github_actions_update
workflow_record(record, result) ==
    IF result.raised THEN [record EXCEPT !.status = << "failed" >>]
    ELSE IF result.success
         THEN [record EXCEPT !.item_price = FormatPrice(result.price),
                             !.status = << "updated" >>]
         ELSE record

\* save_equipment_data: every record of the data whose status is the
\* updated one gets the time of the save
save_equipment_data(data, current_time) ==
    [i \in DOMAIN data |->
        IF data[i].status = << "updated" >>
        THEN [data[i] EXCEPT !.last_updated = current_time]
        ELSE data[i]]

\* run_github_actions_update: the first target items of the file are
\* updated one after the other, then the whole data is saved
RunGithubActionsUpdate(target, pages) ==
    LET results == [n \in 1..target |->
                       [equipment_id |-> ItemIds[n],
                        result |-> workflow_update(pages[n], 0)]]
        data == [i \in 1..NumItems |->
                    IF i <= target
                    THEN workflow_record(equipment_file[i], results[i].result)
                    ELSE equipment_file[i]]
    IN  /\ upc = "idle"
        /\ runs < MaxRuns
        /\ runs' = runs + 1
        /\ clock' = clock + 1
        /\ all_results' = results
        /\ updated_count' = Cardinality({n \in 1..target : results[n].result.success})
        /\ equipment_data' = save_equipment_data(data, clock')
        /\ equipment_file' = equipment_data'
        /\ UNCHANGED << equipment, tracker_vars, file_vars, fault_vars, agg_history,
                        ingest_log, total_log, run_log, pc, aggregated, sel, retry,
                        drivers, config, batches, tasks, counts, upc, write_log >>

\* runs of the workflow script on the equipment file
NextWorkflow ==
    \E target \in WorkflowTargets, pages \in [1..3 -> WorkflowPages] :
        RunGithubActionsUpdate(target, pages)

SpecWorkflow == Init /\ [][NextWorkflow]_vars

\* a run of run_update that may be stopped at any point before its final write
NextAbort ==
    \/ NextUpdate
    \/ AbortRun

SpecAbort == Init /\ [][NextAbort]_vars

---------------------------------------------------------------------------
(* Properties *)

\* the timestamps of a sequence of points are strictly increasing
StrictlyIncreasing(points) ==
    \A j \in 1..Len(points) - 1 : points[j].timestamp < points[j + 1].timestamp

\* the sum of f over the set S
RECURSIVE SetSum(_, _)
SetSum(S, f) ==
    IF S = {} THEN 0
    ELSE LET x == CHOOSE y \in S : TRUE IN f[x] + SetSum(S \ {x}, f)

\* the step is a whole run of update_from_current_prices
TrackerRun == pc = "tracker" /\ pc' = "idle"

\* the step is a whole run of process_total_price_aggregation
AggregatorRun == pc = "aggregator" /\ pc' = "idle"

\* the items whose price the tracker run of this step ingests
Ingested == {i \in Items : equipment[i] > 0}

\* the first timestamp of the last greedy group of a buffer
OpenGroupStart(raw, r) == Last(GreedyGroups(raw, interval(r)))[1].timestamp

\* the sample ingested for item i in this step joins the last group of the
\* item's raw buffer
JoinsOpenGroup(i, r) ==
    /\ raw_price_data[i] # << >>
    /\ Last(raw_price_data'[i]).timestamp - OpenGroupStart(raw_price_data[i], r) < interval(r)

\* the total point of this step joins the last group of the total raw buffer
TotalJoinsOpenGroup(r) ==
    /\ total_price_raw_data # << >>
    /\ Last(total_price_raw_data').timestamp - OpenGroupStart(total_price_raw_data, r)
          < interval(r)

\* C1, state part: every per-item series, in the tracker and in the
\* history_<resolution>.json files, has at most maxlen(resolution) entries.
SeriesWithinCap ==
    \A i \in Items, r \in Resolutions :
        /\ Len(price_history[i][r]) <= maxlen(r)
        /\ Len(f_history[r][i]) <= maxlen(r)

\* C1, step part: a run that changes a series that is full drops its oldest
\* entry and puts the new entry at the end.
OldestDropped ==
    TrackerRun =>
        \A i \in Items, r \in Resolutions :
            (Len(price_history[i][r]) = maxlen(r) /\ price_history'[i][r] # price_history[i][r])
                => /\ Len(price_history'[i][r]) = maxlen(r)
                   /\ \A j \in 1..maxlen(r) - 1 :
                         price_history'[i][r][j] = price_history[i][r][j + 1]

\* C1: after any sequence of loads and runs every per-item resolution series
\* has at most maxlen(resolution) entries, and an append to a full series
\* drops the oldest entry.
C1_SeriesCapped == []SeriesWithinCap /\ [][OldestDropped]_vars

\* C1 witness: an item was ingested more often than the 1day cap, at distinct
\* times, and its 1day series is full.
C1_Witness ==
    \E i \in Items :
        /\ Len(ingest_log[i]) > maxlen("1day")
        /\ StrictlyIncreasing(ingest_log[i])
        /\ Len(price_history[i]["1day"]) = maxlen("1day")
        /\ Len(f_history["1day"][i]) = maxlen("1day")

\* C2: the total series of every resolution (the labels and data arrays of
\* total_price_history and of total_price_<resolution>.json) has at most
\* maxlen(resolution) points.
C2_TotalSeriesCapped ==
    \A r \in Resolutions :
        /\ Len(total_price_history[r].labels) <= maxlen(r)
        /\ Len(total_price_history[r].totals) <= maxlen(r)
        /\ Len(f_total[r].labels) <= maxlen(r)

\* C3: a run that reads the same prices as the run before it, in the same
\* bucket window of a resolution, leaves the persisted per-item series and
\* total series of that resolution as they were.
C3_Idempotent ==
    [][(TrackerRun /\ run_log # << >> /\ Last(run_log).eq = equipment)
          => \A r \in Resolutions :
                ((\A i \in Ingested : JoinsOpenGroup(i, r))
                    /\ (Ingested # {} => TotalJoinsOpenGroup(r)))
                  => (f_history'[r] = f_history[r] /\ f_total'[r] = f_total[r])]_vars

\* C4: when the ingested sample joins the open last group of the item's raw
\* buffer the last entry of the series is replaced by the refreshed aggregate
\* and the series does not grow; an entry is appended only when the sample
\* starts a new group.
C4_TailOverwrite ==
    [][TrackerRun =>
          \A i \in Ingested, r \in Resolutions :
              LET old == price_history[i][r]
                  new == price_history'[i][r]
                  latest == Last(aggregate_price_data_for_interval(raw_price_data'[i], r))
              IN  IF JoinsOpenGroup(i, r) /\ old # << >>
                  THEN new = [old EXCEPT ![Len(old)] = latest]
                  ELSE new = LastN(Append(old, latest), maxlen(r))]_vars

C6_AverageConsistent ==
    \A r \in Resolutions :
        LET agg == total_aggregated_data(total_price_raw_data, r)
        IN  \A j \in 1..Len(agg) :
                agg[j].item_count > 0 =>
                    /\ agg[j].average_price * agg[j].item_count <= agg[j].total_price
                    /\ agg[j].total_price
                          < agg[j].average_price * agg[j].item_count + agg[j].item_count

\* the point pt is the total of the prices of the items in V
IsTotalOf(pt, V) ==
    /\ pt.total_price = SetSum(V, equipment)
    /\ pt.item_count = Cardinality(V)
    /\ pt.average_price * pt.item_count <= pt.total_price
    /\ pt.total_price < pt.average_price * pt.item_count + pt.item_count

\* the items calculate_total_price_from_json counts
AggCounted == {i \in Items : equipment[i] >= 10000 /\ equipment[i] <= 100000000}

\* C7: the total point of a run has total_price = the sum of the valid items'
\* prices, item_count = their number and average_price = the floor of their
\* quotient, in the tracker and in the aggregator.
C7_RunTotal ==
    [][/\ (TrackerRun /\ Ingested # {})
            => /\ total_price_raw_data' # << >>
               /\ IsTotalOf(Last(total_price_raw_data'), Ingested)
       /\ (AggregatorRun /\ AggCounted # {})
            => \A r \in Resolutions :
                  agg_history'[r] # agg_history[r]
                     => IsTotalOf(Last(agg_history'[r]), AggCounted)]_vars

\* C7 witness: with A = 100000, B = 200000 and no price for C both programs
\* have computed 300000 / 2 / 150000.
C7_Witness ==
    /\ equipment = Prices(100000, 200000, 0)
    /\ total_price_raw_data # << >>
    /\ Last(total_price_raw_data).total_price = 300000
    /\ Last(total_price_raw_data).item_count = 2
    /\ Last(total_price_raw_data).average_price = 150000
    /\ agg_history["1hour"] # << >>
    /\ Last(agg_history["1hour"]).total_price = 300000
    /\ Last(agg_history["1hour"]).item_count = 2
    /\ Last(agg_history["1hour"]).average_price = 150000

\* C8, state part: no total point is zero-valued.
NoZeroPoint ==
    /\ \A j \in 1..Len(total_price_raw_data) :
          total_price_raw_data[j].total_price > 0 /\ total_price_raw_data[j].item_count > 0
    /\ \A r \in Resolutions : \A j \in 1..Len(agg_history[r]) :
          agg_history[r][j].total_price > 0 /\ agg_history[r][j].item_count > 0

\* C8, step part: a run without a valid price leaves the total data and the
\* total files as they were.
NoPointEmitted ==
    /\ (TrackerRun /\ Ingested = {})
          => UNCHANGED << total_price_raw_data, total_price_history, f_total_raw, f_total >>
    /\ (AggregatorRun /\ AggCounted = {})
          => UNCHANGED << agg_history, f_total >>

\* C8: a run in which no item has a valid price emits no total point: the
\* total raw buffer, the total series and the total files stay as they were,
\* and no zero-valued point is ever added.
C8_NoPointWithoutPrices == []NoZeroPoint /\ [][NoPointEmitted]_vars

\* C8 witness: the last tracker run read a file without any valid price while
\* total points of earlier runs were stored.
C8_Witness ==
    /\ pc = "idle"
    /\ run_log # << >>
    /\ \A i \in Items : Last(run_log).eq[i] <= 0
    /\ total_price_raw_data # << >>
    /\ f_total["1hour"].kind = "chart"

\* the index in the raw buffer of the last member of the j-th group
GroupEnd(points, j) == SumSeq([n \in 1..j |-> points[n].data_points])

\* C9: aggregate_price_data_for_interval partitions the raw buffer into
\* greedy groups: a group holds the samples less than bucket_width after its
\* first sample, the next sample opens the next group, and each group yields
\* one point with the last member's timestamp, the floor of the mean of the
\* members' prices and the group size.
C9_GreedyGroups ==
    aggregated.r # "none" =>
        LET raw == raw_price_data["A"]
            out == aggregated.points
            w == interval(aggregated.r)
            first(j) == GroupEnd(out, j - 1) + 1
            last(j) == GroupEnd(out, j)
        IN  /\ GroupEnd(out, Len(out)) = Len(raw)
            /\ \A j \in 1..Len(out) :
                  /\ out[j].data_points >= 1
                  /\ out[j].data_points = last(j) - first(j) + 1
                  /\ out[j].timestamp = raw[last(j)].timestamp
                  /\ \A m \in first(j)..last(j) :
                        raw[m].timestamp - raw[first(j)].timestamp < w
                  /\ j < Len(out)
                        => raw[last(j) + 1].timestamp - raw[first(j)].timestamp >= w
                  /\ LET total == SetSum(first(j)..last(j), [m \in 1..Len(raw) |-> raw[m].price])
                     IN  /\ out[j].price * out[j].data_points <= total
                         /\ total < out[j].price * out[j].data_points + out[j].data_points

\* C9 witness: samples at 0, 10 and 70 minutes with prices 100, 110, 200 and
\* a width of 60 minutes give 105 at t = 10 (2 samples) and 200 at t = 70 (1).
C9_Witness ==
    /\ raw_price_data["A"] = << [timestamp |-> 0, price |-> 100],
                                [timestamp |-> 600, price |-> 110],
                                [timestamp |-> 4200, price |-> 200] >>
    /\ aggregated = [r |-> "1hour",
                     points |-> << [timestamp |-> 600, price |-> 105, data_points |-> 2],
                                   [timestamp |-> 4200, price |-> 200, data_points |-> 1] >>]

\* the last n elements of log, oldest first
MostRecent(log, n) ==
    [j \in 1..(IF Len(log) < n THEN Len(log) ELSE n) |->
        log[j + (IF Len(log) < n THEN 0 ELSE Len(log) - n)]]

\* C10: the raw buffer of every item holds exactly the most recent
\* min(n, capacity) of the n samples ingested for it, in ingestion order, and
\* so does the total raw buffer.
C10_RawBufferFifo ==
    /\ \A i \in Items :
          /\ raw_price_data[i] = MostRecent(ingest_log[i], RawCap)
          /\ f_raw[i] = MostRecent(ingest_log[i], RawCap)
    /\ total_price_raw_data = MostRecent(total_log, RawCap)

\* C10 witness: more samples than the capacity were ingested for an item, and
\* more total points than the capacity were appended.
C10_Witness ==
    /\ \E i \in Items : Len(ingest_log[i]) > RawCap
    /\ Len(total_log) > RawCap

\* the minute-bucket of a timestamp
MinuteBucket(t) == t \div 60

\* C11: the raw buffer of an item, in the tracker and in raw_price_data.json,
\* never holds two samples of the same minute-bucket (a sample of the minute
\* of the last stored one replaces it).
C11_MinuteBucketUnique ==
    \A i \in Items :
        /\ \A j \in 1..Len(raw_price_data[i]) - 1 :
              MinuteBucket(raw_price_data[i][j].timestamp)
                 # MinuteBucket(raw_price_data[i][j + 1].timestamp)
        /\ \A j \in 1..Len(f_raw[i]) - 1 :
              MinuteBucket(f_raw[i][j].timestamp) # MinuteBucket(f_raw[i][j + 1].timestamp)

\* the items of the file whose price is not a positive integer
Rejected == {i \in Items : equipment[i] <= 0}

\* C12: a run leaves the raw buffer, the resolution series and the
\* current_prices entry of every item without a positive price as they were,
\* and the total point of the run is the total of the other items only.
C12_InvalidPriceRejected ==
    [][TrackerRun =>
          /\ \A i \in Rejected :
                /\ raw_price_data'[i] = raw_price_data[i]
                /\ price_history'[i] = price_history[i]
                /\ current_prices'[i] = current_prices[i]
          /\ Rejected # Items
                => /\ Len(total_log') = Len(total_log) + 1
                   /\ Last(total_log').total_price = SetSum(Items \ Rejected, equipment)
                   /\ Last(total_log').item_count = Cardinality(Items \ Rejected)
          /\ Rejected = Items => total_log' = total_log]_vars

\* C12 witness: the last run read a file in which B has no price and C a
\* negative one, while both had samples and series entries from earlier runs.
C12_Witness ==
    /\ pc = "idle"
    /\ run_log # << >>
    /\ Last(run_log).eq = Prices(120, 0, -5)
    /\ raw_price_data["B"] # << >>
    /\ raw_price_data["C"] # << >>
    /\ price_history["C"]["1hour"] # << >>
    /\ Last(raw_price_data["A"]).price = 120

\* the k-th smallest element of a non-empty list q
OrderStat(q, k) ==
    CHOOSE v \in {q[j] : j \in 1..Len(q)} :
        /\ Cardinality({j \in 1..Len(q) : q[j] < v}) < k
        /\ k <= Cardinality({j \in 1..Len(q) : q[j] <= v})

\* four times the quartile of q at p/4 (p = 1 or 3) by linear interpolation:
\* a + (h - floor(h)) * (b - a), a and b the order statistics around h = p(n-1)/4
Quartile4(q, p) ==
    LET h4 == p * (Len(q) - 1)
        a == OrderStat(q, h4 \div 4 + 1)
        b == IF h4 % 4 = 0 THEN a ELSE OrderStat(q, h4 \div 4 + 2)
    IN  4 * a + (h4 % 4) * (b - a)

\* the quotes of q within [Q1 - k*IQR, Q3 + k*IQR]
InsideFences(q) ==
    LET iqr4 == Quartile4(q, 3) - Quartile4(q, 1)
    IN  {v \in {q[j] : j \in 1..Len(q)} :
            /\ 4 * v >= Quartile4(q, 1) - iqr_multiplier * iqr4
            /\ 4 * v <= Quartile4(q, 3) + iqr_multiplier * iqr4}

\* the least element of a non-empty set of integers
Least(S) == CHOOSE v \in S : \A w \in S : v <= w

\* the quote list is long enough for the IQR test and its IQR is positive
IqrApplies(q) == Len(q) >= minimum_data_points /\ Quartile4(q, 3) - Quartile4(q, 1) > 0

\* C13: for at least 4 quotes with IQR > 0 a quote is marked as an outlier iff
\* it lies outside [Q1 - k*IQR, Q3 + k*IQR], and select_optimal_price returns
\* the minimum of the other quotes with the normal status.
C13_IqrSelection ==
    (sel.stage = "selected" /\ IqrApplies(sel.prices)) =>
        /\ \A j \in 1..Len(sel.prices) :
              (\E m \in 1..Len(sel.detected.outliers) :
                    sel.detected.outliers[m] = sel.prices[j])
                 <=> sel.prices[j] \notin InsideFences(sel.prices)
        /\ InsideFences(sel.prices) # {}
              => sel.selection = [price |-> Least(InsideFences(sel.prices)), status |-> "normal"]

\* C13 witness: for 50000, 51000, 52000, 53000, 9000000 exactly 9000000 was
\* excluded and 50000 selected.
C13_Witness ==
    /\ sel.stage = "selected"
    /\ sel.prices = << 50000, 51000, 52000, 53000, 9000000 >>
    /\ sel.detected.outliers = << 9000000 >>
    /\ sel.selection = [price |-> 50000, status |-> "normal"]

\* C14: with fewer than 4 quotes, or with an IQR of 0, no quote is excluded
\* and select_optimal_price returns the minimum of all quotes with the normal
\* status.
C14_NoFiltering ==
    (sel.stage = "selected" /\ sel.prices # << >> /\ ~IqrApplies(sel.prices)) =>
        /\ sel.detected.outliers = << >>
        /\ sel.detected.normal_prices = sel.prices
        /\ sel.selection = [price |-> Least({sel.prices[j] : j \in 1..Len(sel.prices)}),
                            status |-> "normal"]

\* C14 witness: 200000, 210000, 220000 selected 200000 without filtering.
C14_Witness ==
    /\ sel.stage = "selected"
    /\ sel.prices = << 200000, 210000, 220000 >>
    /\ sel.detected.outliers = << >>
    /\ sel.selection = [price |-> 200000, status |-> "normal"]

\* C15: select_optimal_price on an empty quote list returns no price with the
\* no-data status whatever the previous price is, and an item whose collection
\* gave no quotes is reported as failed and keeps its stored price.
C15_EmptyQuotes ==
    /\ (sel.stage = "selected" /\ sel.prices = << >>)
          => sel.selection = [price |-> None, status |-> "no_data"]
    /\ (sel.stage = "stored" /\ sel.prices = << >>)
          => /\ ~sel.result.success
             /\ sel.record.item_price = sel.before.item_price
             /\ sel.record.status = << "failed" >>

\* C15 witness: select_optimal_price was called without quotes for an item
\* whose stored price is 60,000.
C15_Witness ==
    /\ sel.stage = "selected"
    /\ sel.prices = << >>
    /\ parse_previous_price(sel.record.item_price) = 60000
    /\ sel.selection.price = None

\* C17: every price extract_prices returns is greater than
\* minimum_price_threshold, and so is every price written into item_price.
C17_AboveThreshold ==
    /\ sel.stage \in {"extracted", "stored"}
          => \A j \in 1..Len(sel.prices) : sel.prices[j] > 10000
    /\ (sel.stage = "stored" /\ sel.record.item_price # sel.before.item_price)
          => ParsePrice(sel.record.item_price) > 10000

\* C17 witness: a page with quotes of 5000 and 10000 among others was
\* collected and the price written is 12,000.
C17_Witness ==
    /\ sel.stage = "stored"
    /\ \E j \in 1..Len(sel.all_prices) : sel.all_prices[j] = 5000
    /\ \E j \in 1..Len(sel.all_prices) : sel.all_prices[j] = 10000
    /\ sel.result.success
    /\ sel.record.item_price = << 12, 0 >>

\* the batches have all been run and their results taken over
WorkersJoined == \A b \in 1..Len(tasks) : tasks[b].state = "collected"

\* C18, step part: a step that changes a record of equipment_data or
\* updated_count is the load at the start of the run or the main thread's
\* loop over all_results after every batch has completed.
MainThreadOnly ==
    (equipment_data' # equipment_data \/ updated_count' # updated_count)
        => \/ upc = "idle"
           \/ upc = "apply" /\ WorkersJoined

\* C18, state part: every write to a record was made by the main thread
\* (thread 0) after the workers had finished, and no record was written by
\* two threads.
WrittenByMain ==
    \A m, n \in 1..Len(write_log) :
        /\ write_log[n].thread = 0
        /\ write_log[n].workers_done
        /\ write_log[m].item = write_log[n].item => write_log[m].thread = write_log[n].thread

\* C18: in a parallel run the records of equipment_data and updated_count are
\* written only by the main thread, after every batch has completed; no
\* worker writes a record and no record is written by two threads.
C18_SingleWriter == []WrittenByMain /\ [][MainThreadOnly]_vars

\* C18 witness: a parallel run with two batches has finished, the main thread
\* has written the record of every item, some updated and some failed.
C18_Witness ==
    /\ upc = "done"
    /\ Len(batches) = 2
    /\ Len(write_log) = NumItems
    /\ updated_count > 0
    /\ updated_count < NumItems
    /\ \E i \in 1..NumItems : equipment_data[i].status = << "failed" >>

\* the ids of the items the run works on
Selected == {n \in 1..NumItems : config.target_items = -1 \/ n <= config.target_items}

\* C19, batches: every selected item is in exactly one batch, and a batch
\* holds at most max(10, total // max_workers) items.
OneBatchEach ==
    upc = "parallel" =>
        /\ \A i \in Selected :
              Cardinality({bj \in UNION {{<< b, j >> : j \in 1..Len(batches[b])} :
                                            b \in 1..Len(batches)} :
                              batches[bj[1]][bj[2]] = i}) = 1
        /\ \A b \in 1..Len(batches) :
              /\ batches[b] # << >>
              /\ Len(batches[b]) <= 10 \/ Len(batches[b]) <= Cardinality(Selected) \div config.max_workers

\* C19, results: when the collection is over every selected item has exactly
\* one result, and after the loop over the results it has an updated price or
\* the failure status.
OneResultEach ==
    /\ upc \in {"apply", "write", "done"}
          => /\ Len(all_results) = Cardinality(Selected)
             /\ \A i \in Selected :
                   Cardinality({n \in 1..Len(all_results) : all_results[n].equipment_id = i}) = 1
    /\ upc \in {"write", "done"}
          => \A i \in 1..NumItems :
                IF i \in Selected
                THEN equipment_data[i].status[1] \in {"updated", "failed"}
                ELSE equipment_data[i] = equipment_file[i] \/ upc = "done"
    /\ upc = "done" => equipment_file = equipment_data

\* C19: whatever items succeed or fail, in the sequential and in the parallel
\* mode, every selected item is in exactly one batch and yields exactly one
\* result, ends with an updated price or the failure status, and the run
\* reaches the final write of the file.
C19_ErrorsIsolated == [](OneBatchEach /\ OneResultEach) /\ <>(upc = "done")

\* C19 witness: a parallel run of two batches in which the pages of some
\* items failed to open has written the file.
C19_Witness ==
    /\ upc = "done"
    /\ Len(batches) = 2
    /\ \E n \in 1..Len(all_results) : ~all_results[n].result.success
    /\ \E n \in 1..Len(all_results) : all_results[n].result.success
    /\ equipment_file[1].status[1] = "failed"
    /\ equipment_file[2].status[1] = "updated"

\* C20: an error raised while one item's history is updated (a persisted raw
\* sample of that item without its price field) does not keep the run from
\* updating and saving the histories of the other items and the total series.
C20_ItemErrorsIsolated ==
    [][TrackerRun =>
          /\ \A i \in Ingested :
                ~Raises(raw_price_data[i]) =>
                    /\ Len(ingest_log'[i]) = Len(ingest_log[i]) + 1
                    /\ f_raw'[i] # << >>
                    /\ Last(f_raw'[i]) = Last(ingest_log'[i])
                    /\ \A r \in Resolutions :
                          /\ f_history'[r][i] # << >>
                          /\ Last(f_history'[r][i]).timestamp = Last(f_raw'[i]).timestamp
          /\ (\E i \in Ingested : ~Raises(raw_price_data[i])) =>
                /\ Len(total_log') = Len(total_log) + 1
                /\ f_total_raw' # << >>
                /\ Last(f_total_raw') = Last(total_log')]_vars

\* the results of the run whose collection failed or found no quote
FailedResults == {n \in 1..Len(all_results) : ~all_results[n].result.success}

\* C21: when the collection of an item fails or yields no quotes in a run of
\* run_update, the item's item_price and last_updated stay as they were
\* before the run, in equipment_data and in the file written at the end;
\* only its status changes, to the failure status.
C21_FailureKeepsPrice ==
    upc \in {"write", "done"} =>
        \A n \in FailedResults :
            LET i == all_results[n].equipment_id
            IN  /\ equipment_data[i] = [StoredRecord(i) EXCEPT !.status = << "failed" >>]
                /\ upc = "done" => equipment_file[i] = equipment_data[i]

\* C21 witness: a run has been written in which item 3, which had a stored
\* price, could not be collected, item 4 had no quote above the threshold,
\* and item 1 was updated.
C21_Witness ==
    /\ upc = "done"
    /\ equipment_file[3] = [item_price |-> FormatPrice(60000), status |-> << "failed" >>,
                            last_updated |-> 0]
    /\ equipment_file[4].status = << "failed" >>
    /\ equipment_file[1].status[1] = "updated"
    /\ \E n \in FailedResults : all_results[n].equipment_id = 3

\* a step in which a tracker is constructed and loads the files
TrackerLoad == pc = "idle" /\ pc' = "tracker"

\* C22: the load of the tracker is isolated per series: the series of an
\* unparseable file and a series that is not a list are initialised empty,
\* and every other series of every file is loaded.
C22_LoadIsolated ==
    [][TrackerLoad =>
          /\ \A i \in Items :
                raw_price_data'[i] =
                    IF RawFile \in f_damage \/ RawSeries(i) \in f_damage
                    THEN << >>
                    ELSE LastN(f_raw[i], RawCap)
          /\ \A i \in Items, r \in Resolutions :
                price_history'[i][r] =
                    IF HistoryFile(r) \in f_damage \/ HistorySeries(r, i) \in f_damage
                    THEN << >>
                    ELSE LastN(f_history[r][i], maxlen(r))]_vars

\* the save of a tracker run wrote the series of resolution r
HistorySaved(r) == f_history'[r] = [i \in Items |-> price_history'[i][r]]

\* the save of a tracker run wrote the total data of resolution r
TotalSaved(r) == total_price_history'[r].kind # "none" => f_total'[r] = total_price_history'[r]

\* the aggregator wrote the chart of resolution r with the point it added
ChartSaved(r) ==
    agg_history'[r] # agg_history[r] =>
        /\ f_total'[r].kind = "chart"
        /\ Last(f_total'[r].totals) = Last(agg_history'[r]).total_price

\* C23, tracker: in a run that saves, every resolution file that can be written
\* is written, whichever other file cannot.
TrackerWritesIsolated ==
    TrackerRun /\ Ingested # {} =>
        \A r \in Resolutions :
            /\ HistoryFile(r) \notin f_locked => HistorySaved(r)
            /\ TotalFile(r) \notin f_locked /\ TotalRawFile \notin f_locked => TotalSaved(r)

\* C23, aggregator: every total file that can be written is written.
AggregatorWritesIsolated ==
    AggregatorRun => \A r \in Resolutions : TotalFile(r) \notin f_locked => ChartSaved(r)

\* C23: a write failure on the file of one resolution does not keep the files
\* of the other resolutions from being written in the same save.
C23_WritesIsolated == [][TrackerWritesIsolated /\ AggregatorWritesIsolated]_vars

\* the results of the run with a given status of the selection
ResultsWith(statuses) ==
    {n \in 1..Len(all_results) :
        all_results[n].result.success /\ all_results[n].result.price_status \in statuses}

\* C24: the three counts of the run summary partition the results:
\* normal_updates counts the successful results selected with the normal
\* status, the second counter those resolved by a fallback, failed_updates the
\* failed results; they sum to the number of results, and the first two to
\* updated_count.
C24_SummaryCounts ==
    upc \in {"write", "done"} =>
        /\ counts.normal_updates = Cardinality(ResultsWith({"normal"}))
        /\ counts.filtered_updates
              = Cardinality(ResultsWith({"fallback_previous", "fallback_median"}))
        /\ counts.failed_updates = Cardinality(FailedResults)
        /\ counts.normal_updates + counts.filtered_updates + counts.failed_updates
              = Len(all_results)
        /\ counts.normal_updates + counts.filtered_updates = updated_count

C26_TotalAccumulates ==
    [][AggregatorRun =>
          \A r \in Resolutions :
              agg_history'[r] # agg_history[r] /\ f_total[r].kind = "chart" =>
                  /\ f_total'[r].kind = "chart"
                  /\ f_total'[r].totals
                        = LastN(Append(f_total[r].totals, Last(agg_history'[r]).total_price),
                                maxlen(r))
                  /\ f_total'[r].averages
                        = LastN(Append(f_total[r].averages, Last(agg_history'[r]).average_price),
                                maxlen(r))
                  /\ Len(f_total'[r].labels) = Len(f_total'[r].totals)]_vars

\* the labels and the two data arrays of total chart data have one length
TotalChartAligned(chart) ==
    chart.kind = "chart" =>
        /\ Len(chart.labels) = Len(chart.totals)
        /\ Len(chart.labels) = Len(chart.averages)

MergedFromResult ==
    \A i \in 1..NumItems :
        equipment_data'[i] # equipment_data[i] =>
            /\ upc = "apply"
            /\ \E n \in 1..Len(all_results), ok \in BOOLEAN :
                  /\ all_results[n] = ItemResult(i, ok, equipment_data)
                  /\ equipment_data'[i]
                        = apply_result(equipment_data[i], all_results[n].result, clock + n)

\* until the final write equipment_prices.json is as it was before the run
FileKeptUntilWrite ==
    upc # "done" => equipment_file = [i \in 1..NumItems |-> StoredRecord(i)]

\* C28: a record is modified only from the complete result of its item, and a
\* run that is stopped before the final write leaves equipment_prices.json as
\* it was before the run.
C28_NoPartialMerge == []FileKeptUntilWrite /\ [][MergedFromResult]_vars

\* C28 witness: a run was stopped after the results had been put into
\* equipment_data; item 1 is updated in memory and unchanged in the file.
C28_Witness ==
    /\ upc = "aborted"
    /\ equipment_data[1].status[1] = "updated"
    /\ equipment_file[1] = StoredRecord(1)
    /\ Len(batches) = 2

\* a step of a run that is stopped in save_aggregated_data
StoppedStep ==
    \E tk \in LockedTimeSteps, n \in StopPoints : UpdateStoppedInSave(tk[1], tk[2], n)

\* C29: the save is not transactional: a run stopped between two writes of
\* save_aggregated_data leaves history_1hour.json with the run's series and
\* history_1day.json as it was before the run.
C29_SaveNotTransactional ==
    [][StoppedStep =>
          /\ f_history'["1hour"] = [i \in Items |-> price_history'[i]["1hour"]]
          /\ f_history'["1day"] = f_history["1day"]]_vars

\* C29 witness: after the second run, stopped in the save, history_1hour.json
\* holds the run's new point of item A and history_1day.json does not.
C29_Witness ==
    /\ pc = "idle"
    /\ runs = 2
    /\ Len(price_history["A"]["1hour"]) = 2
    /\ Len(price_history["A"]["1day"]) = 2
    /\ f_history["1hour"]["A"] = price_history["A"]["1hour"]
    /\ Len(f_history["1day"]["A"]) = 1
    /\ price_history["A"]["1day"][2] \notin {f_history[r]["A"][1] : r \in {"1day"}}

\* the calls of the wrapped function that raised an exception the wrapper catches
Caught(trace) ==
    {n \in 1..Len(trace) : trace[n].kind = "raise" /\ trace[n].value \in Exceptions}

\* the wrapper in every state: at most max_retries calls; it has returned only
\* the result of its last call, the only one that did not raise; it sleeps or
\* calls again only after caught exceptions and with attempts left; it has
\* raised only the exception of its last call, after max_retries calls if it
\* is one the wrapper catches
RetryBounded ==
    LET n == Len(retry.trace)
        before == Caught(retry.trace) \cap 1..(n - 1)
    IN  /\ n <= retry.max_retries
        /\ retry.state = "returned" =>
              /\ n >= 1
              /\ retry.trace[n] = [kind |-> "return", value |-> retry.outcome]
              /\ before = 1..(n - 1)
        /\ retry.state = "sleep" =>
              /\ Caught(retry.trace) = 1..n
              /\ n >= 1 /\ n < retry.max_retries
        /\ retry.state = "call" =>
              /\ Caught(retry.trace) = 1..n
              /\ n < retry.max_retries
              /\ retry.attempt = n + 1
        /\ retry.state = "raised" =>
              /\ n >= 1
              /\ retry.trace[n] = [kind |-> "raise", value |-> retry.outcome]
              /\ before = 1..(n - 1)
              /\ retry.outcome \in Exceptions =>
                    n = retry.max_retries /\ retry.last_exception = retry.outcome
        /\ (n = retry.max_retries /\ Caught(retry.trace) = 1..n /\ n >= 1) =>
              retry.state = "raised"

\* C30: the wrapper calls the function at most max_retries times, returns the
\* result of the first call that does not raise, calls again only while
\* attempts remain, raises the last exception after max_retries raising
\* calls, and every call of the wrapper ends.
C30_RetryTerminates ==
    /\ []RetryBounded
    /\ (retry.state \in {"call", "sleep"}) ~> (retry.state \in {"returned", "raised"})

\* C30 witness: with max_retries = 3 the wrapper raised the exception of the
\* third call, after two calls that raised another one.
C30_Witness ==
    /\ retry.state = "raised"
    /\ retry.max_retries = WorkflowMaxRetries
    /\ Len(retry.trace) = WorkflowMaxRetries
    /\ retry.outcome = "Exception"
    /\ retry.trace[1].value = "TimeoutException"

\* C31: an item is reported as failed only after ScriptsMaxRetries attempts.
C31_FailureRetried ==
    (retry.state = "returned" /\ retry.outcome = "failure") =>
        Len(retry.trace) = ScriptsMaxRetries

\* C32: outside the body of an attempt no driver is open, and never more than
\* one (the workflow script runs in one thread).
C32_DriversQuit ==
    /\ drivers <= 1
    /\ retry.state # "body" => drivers = 0

RECURSIVE IsSubList(_, _)
IsSubList(a, b) ==
    IF a = << >> THEN TRUE
    ELSE IF b = << >> THEN FALSE
    ELSE IF Head(a) = Head(b) THEN IsSubList(Tail(a), Tail(b))
    ELSE IsSubList(a, Tail(b))

\* the list extract_prices hands to advanced_outlier_removal: the prices of
\* the page above the threshold, sorted, the first seven
RawPrices(all_prices) ==
    LET pre_filtered == SortedList(SelectSeq(all_prices, AboveThreshold))
    IN  SubSeq(pre_filtered, 1, IF Len(pre_filtered) < 7 THEN Len(pre_filtered) ELSE 7)

\* C34: for a list of at least 4 prices advanced_outlier_removal returns at
\* least 3 prices, and they are a sub-list of its input.
C34_FilterKeepsThree ==
    (sel.stage = "extracted" /\ Len(RawPrices(sel.all_prices)) >= 4) =>
        /\ Len(sel.prices) >= 3
        /\ IsSubList(sel.prices, RawPrices(sel.all_prices))

\* C34 witness: of 12000, 50000, 51000, 52000, 9000000 the filter removed
\* the two prices at the ends.
C34_Witness ==
    /\ sel.stage = "extracted"
    /\ RawPrices(sel.all_prices) = << 12000, 50000, 51000, 52000, 9000000 >>
    /\ sel.prices = << 50000, 51000, 52000 >>

\* the list final_relative_check is called with in advanced_outlier_removal
CheckedPrices(all_prices) ==
    strict_iqr_filter(
        remove_relative_high_outliers(
            remove_relative_low_outliers(RawPrices(all_prices))))

\* the prices of a list that are at most final_price_ratio times its lowest
WithinRatio(prices) == Within(prices, MinSeq(prices), final_price_ratio * MinSeq(prices))

C36_PointsSpaced ==
    \A r \in Resolutions : \A n \in 1..(Len(agg_history[r]) - 1) :
        agg_history[r][n + 1].timestamp - agg_history[r][n].timestamp >= interval(r)

\* the aggregated points of the groups of the total raw buffer that a later
\* point has closed: all but the last
ClosedTotalPoints(raw, r) ==
    LET agg == total_aggregated_data(raw, r)
    IN  IF agg = << >> THEN << >> ELSE SubSeq(agg, 1, Len(agg) - 1)

\* two aggregated total points with the same timestamp, total_price,
\* average_price and item_count
SameTotalPoint(p, q) ==
    /\ p.timestamp = q.timestamp
    /\ p.total_price = q.total_price
    /\ p.average_price = q.average_price
    /\ p.item_count = q.item_count

\* C37: the aggregated point of a closed group of the total raw buffer is
\* the same after the next run of the tracker: a point that the run emits
\* with the timestamp of a closed group has its total_price, average_price
\* and item_count.
C37_ClosedBucketsStable ==
    [][TrackerRun =>
          \A r \in Resolutions :
              \A n \in 1..Len(ClosedTotalPoints(total_price_raw_data, r)) :
                  \A m \in 1..Len(total_aggregated_data(total_price_raw_data', r)) :
                      total_aggregated_data(total_price_raw_data', r)[m].timestamp
                            = ClosedTotalPoints(total_price_raw_data, r)[n].timestamp
                         => SameTotalPoint(
                                total_aggregated_data(total_price_raw_data', r)[m],
                                ClosedTotalPoints(total_price_raw_data, r)[n])]_vars

\* the items whose price the run that has just ended updated
UpdatedInRun(results) ==
    {results[n].equipment_id : n \in {m \in 1..Len(results) : results[m].result.success}}

\* C38: a run of run_github_actions_update changes the last_updated of an
\* item only if the run updated the price of that item; the items outside
\* the processed ones and the items that were not updated keep theirs.
C38_StampOnlyUpdated ==
    [][\A i \in 1..NumItems :
          equipment_file'[i].last_updated # equipment_file[i].last_updated
             => i \in UpdatedInRun(all_results')]_vars

\* C39: for the same equipment_prices.json the tracker and the aggregator
\* count the same items as valid: the total point a run of the tracker
\* stores has the total_price and the item_count that
\* calculate_total_price_from_json computes from the file of that run.
C39_SameTotals ==
    [][(TrackerRun /\ ValidItems(equipment) # {})
          => /\ total_price_raw_data' # << >>
             /\ Last(total_price_raw_data').total_price
                   = calculate_total_price_from_json(equipment)[1]
             /\ Last(total_price_raw_data').item_count
                   = calculate_total_price_from_json(equipment)[2]]_vars

\* C40: after update_price_history for an item the last entry of each of
\* the item's resolution series is the aggregate of the last greedy group of
\* the item's raw buffer (timestamp, price and data_points).
C40_TailFresh ==
    [][TrackerRun =>
          \A i \in Ingested : \A r \in Resolutions :
              /\ price_history'[i][r] # << >>
              /\ Last(price_history'[i][r])
                    = Last(aggregate_price_data_for_interval(raw_price_data'[i], r))]_vars

====
